---- MODULE Spec2Model ----
(***************************************************************************)
(* The layered-image model editor (scripts/model_editor.py): the project   *)
(* manifest, the per-layer metadata files, the binding lists, the preview  *)
(* compositor, the metadata migrator, the manifest cleaner and the         *)
(* dirty/autosave controller of MainWindow.                                *)
(*                                                                         *)
(* A Python dict with optional keys is a function whose DOMAIN is the set  *)
(* of keys present.  manifest["layers"] is an insertion-ordered dict: it   *)
(* is the pair (keys, layers) of the key order and the records.            *)
(* A scale is held in thousandths (1000 is 1.0) and an opacity in          *)
(* hundredths (100 is 1.0): the spin boxes have 3 and 2 decimals.          *)
(***************************************************************************)
EXTENDS Integers, Sequences, FiniteSets, TLC

VARIABLES
    project_path,    \* MainWindow.project_path: NoProject or the open directory
    manifest,        \* MainWindow.manifest: [keys, layers]
    is_dirty,        \* MainWindow.is_dirty
    disk_manifest,   \* the content of <project>/manifest.json
    disk_faulty,     \* the disk refuses to write manifest.json
    layer_files,     \* <project>/layers/: file name -> image size <<w, h>>
    metadata_files,  \* <project>/metadata/: file name -> content
    current,         \* layer_list.currentItem(): its layer name, "" for none
    listed,          \* the names the list and the combo boxes were filled
                     \* with, each with whether it was a base layer then
    ui,              \* the widgets of the properties panel: what they show
                     \* and which of them are enabled
    preview_base,    \* preview_base_combo.currentText()
    preview_top,     \* preview_top_combo.currentText()
    scene,           \* the draw operations of the preview scene
    task,            \* the handler that is waiting inside a modal dialog
    last,            \* the handler that ran last, with its arguments and report
    nops             \* handlers run so far

vars == <<project_path, manifest, is_dirty, disk_manifest, disk_faulty,
          layer_files,
          metadata_files, current, listed, ui, preview_base, preview_top,
          scene, task, last, nops>>

----------------------------------------------------------------------------
(* Bounds of the model *)

\* handlers run in one behaviour of the editor
MaxOps == 4
\* files chosen in one file dialog
MaxPaths == 2

----------------------------------------------------------------------------
(* Values *)

NoProject == "<no project>"
ProjectDir == "project"
NoneText == "<None>"
BaseType == "base_layer"

\* 1.0 as a scale, 1.0 as an opacity
ScaleOne == 1000
OpacityOne == 100

LayerNames == {"a.png", "a.jpg", "b.png"}

\* Path(name).stem
Stem(name) ==
    CASE name = "a.png" -> "a"
      [] name = "a.jpg" -> "a"
      [] name = "b.png" -> "b"
      [] name = "a.json" -> "a"
      [] name = "b.json" -> "b"
      [] OTHER -> "z"

\* f"{stem}.json"
JsonName(stem) ==
    CASE stem = "a" -> "a.json"
      [] stem = "b" -> "b.json"
      [] OTHER -> "z.json"

MetaNames == {"a.json", "b.json", "z.json"}

\* the place of a name in sorted(names) and in the listing of a directory
NameRank(name) ==
    CASE name = "a.jpg" -> 1
      [] name = "a.json" -> 2
      [] name = "a.png" -> 3
      [] name = "b.json" -> 4
      [] name = "b.png" -> 5
      [] name = "c.png" -> 6
      [] name = "d.png" -> 7
      [] OTHER -> 8

\* sorted(names)[0]
FirstSorted(names) ==
    CHOOSE n \in names : \A o \in names : NameRank(n) <= NameRank(o)

EmptyDict == <<>>

\* dict.pop(k, None) and del d[k]
Drop(d, k) == [f \in DOMAIN d \ {k} |-> d[f]]

\* d[k] = v
Put(d, k, v) == [f \in DOMAIN d \cup {k} |-> IF f = k THEN v ELSE d[f]]

\* d.setdefault(k, v)
SetDefault(d, k, v) == IF k \in DOMAIN d THEN d ELSE Put(d, k, v)

\* d.get(k, v)
Get(d, k, v) == IF k \in DOMAIN d THEN d[k] ELSE v

Has(d, k) == k \in DOMAIN d

\* the elements of a sequence
Range(s) == {s[i] : i \in DOMAIN s}

\* list.remove(x) of an element that occurs once, and the filter of a list
RECURSIVE Without(_, _)
Without(s, x) ==
    IF s = <<>> THEN <<>>
    ELSE IF Head(s) = x THEN Tail(s)
    ELSE <<Head(s)>> \o Without(Tail(s), x)

\* sequences without repetition over a set, up to a length
RECURSIVE SeqsNoDup(_, _)
SeqsNoDup(S, n) ==
    IF n = 0 THEN {<<>>}
    ELSE LET shorter == SeqsNoDup(S, n - 1)
         IN  shorter \cup
             UNION {{Append(s, x) : x \in S \ Range(s)} : s \in shorter}

----------------------------------------------------------------------------
(* The manifest: self.manifest["layers"], an insertion-ordered dict *)

EmptyManifest == [keys |-> <<>>, layers |-> EmptyDict]

\* name in self.manifest["layers"]
InManifest(m, name) == name \in DOMAIN m.layers

\* self.manifest["layers"][name] = rec: a new key goes last, an old one stays
SetLayer(m, name, rec) ==
    [keys |-> IF InManifest(m, name) THEN m.keys ELSE Append(m.keys, name),
     layers |-> Put(m.layers, name, rec)]

\* self.manifest["layers"].pop(name, None) and del self.manifest["layers"][name]
DelLayer(m, name) ==
    [keys |-> Without(m.keys, name), layers |-> Drop(m.layers, name)]

\* self.manifest["layers"].get(name, {})
LayerData(m, name) == Get(m.layers, name, EmptyDict)

IsBase(rec) == Get(rec, "type", "") = BaseType

\* "metadata" in data and data["metadata"]
HasMetadata(rec) == Has(rec, "metadata") /\ rec["metadata"] # ""

----------------------------------------------------------------------------
(* The files of the project directory *)

\* no file at this path
AbsentFile == [absent |-> TRUE]

\* a file that json.load rejects
Malformed == [ok |-> FALSE]

\* a file holding the JSON document d
Json(d) == [ok |-> TRUE, json |-> d]

\* what a load that found nothing returns
NoneValue == [none |-> TRUE]

Some(d) == [none |-> FALSE, json |-> d]

\* Python's truth value of a loaded document: None and {} are false
Truthy(v) == ~v.none /\ v.json # EmptyDict

\* (self.project_path / "layers" / name).exists()
LayerExists(lf, name) == name \in DOMAIN lf

\* MainWindow.load_metadata_content_for_layer: the file's content, or None
load_metadata_content_for_layer(pp, m, mf, layer_name) ==
    IF pp = NoProject THEN NoneValue
    ELSE LET metadata_filename == Get(LayerData(m, layer_name), "metadata", "")
         IN  IF metadata_filename = "" THEN NoneValue
             ELSE IF metadata_filename \in DOMAIN mf
                  THEN [none |-> FALSE, content |-> mf[metadata_filename]]
                  ELSE NoneValue

\* a load that returns an empty document for a content that does not parse
load_metadata_json_empty_on_error(pp, m, mf, layer_name) ==
    LET content == load_metadata_content_for_layer(pp, m, mf, layer_name)
    IN  IF content.none THEN NoneValue
        ELSE IF content.content.ok THEN Some(content.content.json)
        ELSE Some(EmptyDict)

\* MainWindow.load_metadata_json_for_layer: the parsed document, or None when
\* there is no content and when the content does not parse
load_metadata_json_for_layer(pp, m, mf, layer_name) ==
    LET content == load_metadata_content_for_layer(pp, m, mf, layer_name)
    IN  IF content.none THEN NoneValue
        ELSE IF content.content.ok THEN Some(content.content.json)
        ELSE NoneValue

----------------------------------------------------------------------------
(* The compositor: MainWindow.update_preview *)

\* the placement of a layer whose metadata is not looked at
PlacementAtOrigin(metadata) ==
    [x |-> 0, y |-> 0, scale |-> ScaleOne, opacity |-> OpacityOne]

\* the placement read from a layer's metadata, with the defaults
Placement(metadata) ==
    IF Truthy(metadata) /\ Has(metadata.json, "top_layer")
    THEN LET meta == metadata.json["top_layer"]
         IN  [x |-> Get(meta, "x", 0), y |-> Get(meta, "y", 0),
              scale |-> Get(meta, "scale", ScaleOne),
              opacity |-> Get(meta, "opacity", OpacityOne)]
    ELSE [x |-> 0, y |-> 0, scale |-> ScaleOne, opacity |-> OpacityOne]

DrawOp(role, image, size, x, y, scale, opacity, z) ==
    [role |-> role, image |-> image, size |-> size, x |-> x, y |-> y,
     scale |-> scale, opacity |-> opacity, z |-> z]

\* the items of a loop that ends at the first name without an image
RECURSIVE BoundItemsUntilMissing(_, _, _, _, _, _, _)
BoundItemsUntilMissing(pp, m, lf, mf, bound_layer_names, base_offset, current_z) ==
    IF bound_layer_names = <<>> THEN <<>>
    ELSE LET bound_name == Head(bound_layer_names)
         IN  IF ~LayerExists(lf, bound_name) THEN <<>>
             ELSE LET p == Placement(
                              load_metadata_json_for_layer(pp, m, mf, bound_name))
                  IN  <<DrawOp("bound", bound_name, lf[bound_name],
                               base_offset[1] + p.x, base_offset[2] + p.y,
                               p.scale, p.opacity, current_z)>>
                      \o BoundItemsUntilMissing(pp, m, lf, mf,
                                                Tail(bound_layer_names),
                                                base_offset, current_z + 1)

\* the graphics items _render_bound_layers_for adds for the names of one
\* bindings list, from current_z on
RECURSIVE BoundItems(_, _, _, _, _, _, _)
BoundItems(pp, m, lf, mf, bound_layer_names, base_offset, current_z) ==
    IF bound_layer_names = <<>> THEN <<>>
    ELSE LET bound_name == Head(bound_layer_names)
             rest == Tail(bound_layer_names)
         IN  IF ~LayerExists(lf, bound_name)
             THEN BoundItems(pp, m, lf, mf, rest, base_offset, current_z)
             ELSE LET p == Placement(
                              load_metadata_json_for_layer(pp, m, mf, bound_name))
                  IN  <<DrawOp("bound", bound_name, lf[bound_name],
                               base_offset[1] + p.x, base_offset[2] + p.y,
                               p.scale, p.opacity, current_z)>>
                      \o BoundItems(pp, m, lf, mf, rest, base_offset,
                                    current_z + 1)

\* _render_bound_layers_for returning the z it was given, not the z it reached
render_bound_layers_for_start_z(pp, m, lf, mf, source_layer_name, base_offset, start_z) ==
    LET bound_layer_names ==
            Get(LayerData(m, source_layer_name), "bindings", <<>>)
    IN  [items |-> BoundItems(pp, m, lf, mf, bound_layer_names, base_offset,
                              start_z),
         z |-> start_z]

\* MainWindow._render_bound_layers_for: the items and the returned z
render_bound_layers_for(pp, m, lf, mf, source_layer_name, base_offset, start_z) ==
    LET bound_layer_names ==
            Get(LayerData(m, source_layer_name), "bindings", <<>>)
        items == BoundItems(pp, m, lf, mf, bound_layer_names, base_offset,
                            start_z)
    IN  [items |-> items, z |-> start_z + Len(items)]

\* The order in which the scene paints the items: by increasing zValue
RECURSIVE DrawOrder(_)
DrawOrder(items) ==
    IF items = {} THEN <<>>
    ELSE LET lowest == CHOOSE i \in items : \A j \in items : i.z <= j.z
         IN  <<lowest.image>> \o DrawOrder(items \ {lowest})

\* MainWindow.update_preview: the visible items of the scene, in the order
\* the function makes them
Compose(pp, m, lf, mf, base_name, top_name) ==
    LET base_offset == Get(LayerData(m, base_name), "offset", <<0, 0>>)
        base_item ==
            IF base_name # NoneText /\ LayerExists(lf, base_name)
            THEN <<DrawOp("base", base_name, lf[base_name], 0, 0,
                          ScaleOne, OpacityOne, 0)>>
            ELSE <<>>
        z1 == 1
        top_item ==
            IF top_name # NoneText /\ LayerExists(lf, top_name)
            THEN LET p == Placement(
                            load_metadata_json_for_layer(pp, m, mf, top_name))
                 IN  <<DrawOp("top", top_name, lf[top_name],
                              base_offset[1] + p.x, base_offset[2] + p.y,
                              p.scale, p.opacity, z1)>>
            ELSE <<>>
        of_top ==
            IF top_name # NoneText
            THEN render_bound_layers_for(pp, m, lf, mf, top_name, base_offset,
                                         z1 + 1)
            ELSE [items |-> <<>>, z |-> z1]
        of_base ==
            IF base_name # NoneText
            THEN render_bound_layers_for(pp, m, lf, mf, base_name, base_offset,
                                         of_top.z + 1)
            ELSE [items |-> <<>>, z |-> of_top.z]
    IN  base_item \o top_item \o of_top.items \o of_base.items

\* what populate_layer_list and populate_combo_boxes fill the widgets with:
\* the names of the manifest, each with whether it is a base layer
Listing(m) == [name \in DOMAIN m.layers |-> IsBase(m.layers[name])]

\* the entries of the two preview combo boxes for a listing
BaseItems(l) == {NoneText} \cup {n \in DOMAIN l : l[n]}

TopItems(l) == {NoneText} \cup {n \in DOMAIN l : ~l[n]}

----------------------------------------------------------------------------
(* The state machine: one action per handler of MainWindow *)

Idle == [op |-> "idle"]

\* a handler can start: no modal dialog is open and a project is loaded
CanRun == task = Idle /\ nops < MaxOps /\ project_path # NoProject

files == <<disk_manifest, disk_faulty, layer_files, metadata_files>>
preview == <<preview_base, preview_top, scene>>
widgets == <<current, listed, ui, preview_base, preview_top, scene>>

\* QDoubleSpinBox.setValue of metadata_scale_spinbox, range 0.01 to 100.0
ScaleShown(scale) ==
    IF scale < 10 THEN 10 ELSE IF scale > 100 * ScaleOne THEN 100 * ScaleOne
    ELSE scale

\* The properties panel as on_layer_selection_changed(item of name) and the
\* update_ui_state at its end leave it: the description, the base check box,
\* the offset boxes, the bound layers, the four metadata boxes, and the two
\* facts update_ui_state enables the widgets by
SlotUi(pp, m, mf, name) ==
    LET data == LayerData(m, name)
        placed == Placement(load_metadata_json_for_layer(pp, m, mf, name))
    IN  [description |-> Get(data, "description", ""),
         is_base |-> IsBase(data),
         offset |-> Get(data, "offset", <<0, 0>>),
         bindings |-> Range(Get(data, "bindings", <<>>)),
         spin |-> [placed EXCEPT !.scale = ScaleShown(placed.scale)],
         base_gate |-> IsBase(data),
         metadata_gate |-> HasMetadata(data)]

\* The panel with no row current, as update_ui_state resets it. No handler
\* reads the panel then, and the slot sets all of it when a row becomes
\* current.
NoUi ==
    [description |-> "", is_base |-> FALSE, offset |-> <<0, 0>>,
     bindings |-> {},
     spin |-> [x |-> 0, y |-> 0, scale |-> ScaleOne, opacity |-> OpacityOne],
     base_gate |-> FALSE, metadata_gate |-> FALSE]

\* update_ui_state() alone: the two facts are taken from the manifest again
GatedUi(m, name) ==
    IF name = "" THEN NoUi
    ELSE [ui EXCEPT !.base_gate = IsBase(LayerData(m, name)),
                    !.metadata_gate = HasMetadata(LayerData(m, name))]

\* MainWindow.__init__: no project, an empty manifest, nothing to save, no
\* row in the list; the directory the user will pick is empty
Init ==
    /\ project_path = NoProject
    /\ manifest = EmptyManifest
    /\ is_dirty = FALSE
    /\ disk_manifest = AbsentFile
    /\ disk_faulty = FALSE
    /\ layer_files = EmptyDict
    /\ metadata_files = EmptyDict
    /\ current = ""
    /\ listed = EmptyDict
    /\ ui = NoUi
    /\ preview_base = NoneText
    /\ preview_top = NoneText
    /\ scene = <<>>
    /\ task = Idle
    /\ last = [op |-> "init"]
    /\ nops = 0

\* The part of on_layer_selection_changed(item of name) that sets the preview
\* combo boxes filled with the listing l and showing base and top: a base
\* layer becomes the preview's base unless the base is locked, another layer
\* the preview's top layer, when the combo box has the name
SelectionSlot(m, l, name, base, top, lock) ==
    LET is_base == IsBase(LayerData(m, name))
    IN  [base |-> IF is_base /\ ~lock /\ name \in BaseItems(l)
                  THEN name ELSE base,
         top |-> IF ~is_base /\ name \in TopItems(l) THEN name ELSE top]

\* populate_layer_list for the manifest m2: the row of the layer that was
\* current is current again, else the first row; setCurrentRow runs the
\* selection slot on combo boxes that still hold the old entries; then
\* populate_combo_boxes fills them, each keeps its entry when it still has it
\* and shows "<None>" otherwise
Populated(m2, lock) ==
    LET names == DOMAIN m2.layers
        row == IF current \in names THEN current
               ELSE IF names # {} THEN FirstSorted(names) ELSE ""
        slot == IF row = "" THEN [base |-> preview_base, top |-> preview_top]
                ELSE SelectionSlot(m2, listed, row, preview_base, preview_top,
                                   lock)
        l2 == Listing(m2)
    IN  [current |-> row, listed |-> l2,
         base |-> IF slot.base \in BaseItems(l2) THEN slot.base ELSE NoneText,
         top |-> IF slot.top \in TopItems(l2) THEN slot.top ELSE NoneText]

\* the widgets after a refresh that ends with update_preview()
Show(m2, lf2, mf2, row, l2, shown) ==
    /\ current' = row
    /\ listed' = l2
    /\ ui' = IF row = "" THEN NoUi ELSE SlotUi(ProjectDir, m2, mf2, row)
    /\ preview_base' = shown.base
    /\ preview_top' = shown.top
    /\ scene' = Compose(ProjectDir, m2, lf2, mf2, shown.base, shown.top)

\* populate_layer_list()
Repopulate(m2, lf2, mf2, lock) ==
    LET p == Populated(m2, lock)
    IN  Show(m2, lf2, mf2, p.current, p.listed, p)

\* populate_layer_list() and then on_layer_selection_changed(currentItem)
RepopulateAndSelect(m2, lf2, mf2, lock) ==
    LET p == Populated(m2, lock)
        shown == IF p.current = "" THEN p
                 ELSE SelectionSlot(m2, p.listed, p.current, p.base, p.top, lock)
    IN  Show(m2, lf2, mf2, p.current, p.listed, shown)

\* update_preview() with the list and the combo boxes as they are
Redraw(m2, lf2, mf2) ==
    /\ UNCHANGED <<current, listed, preview_base, preview_top>>
    /\ scene' = Compose(project_path, m2, lf2, mf2, preview_base, preview_top)

\* on_layer_selection_changed(item of the current layer) and update_preview()
Reselect(m2, lf2, mf2, lock) ==
    Show(m2, lf2, mf2, current, listed,
         SelectionSlot(m2, listed, current, preview_base, preview_top, lock))

\* on_layer_selection_changed(item of name) alone: name is the current layer,
\* the scene is drawn again only when a combo box changes its entry
ReselectOnly(m2, lf2, mf2, name, lock) ==
    LET shown == SelectionSlot(m2, listed, name, preview_base, preview_top, lock)
    IN  /\ current' = name
        /\ UNCHANGED listed
        /\ ui' = SlotUi(project_path, m2, mf2, name)
        /\ preview_base' = shown.base
        /\ preview_top' = shown.top
        /\ scene' = IF shown.base = preview_base /\ shown.top = preview_top
                    THEN scene
                    ELSE Compose(project_path, m2, lf2, mf2, shown.base, shown.top)

\* a mark_dirty that leaves the flag as it is
mark_dirty_skipped == UNCHANGED is_dirty

\* a save_manifest that writes nothing
save_manifest_skipped == UNCHANGED disk_manifest

\* MainWindow.mark_dirty
mark_dirty == is_dirty' = TRUE

\* MainWindow.save_manifest: json.dump of self.manifest into manifest.json
save_manifest == disk_manifest' = manifest

\* what manifest.json holds after a write that raised: open() refused and the
\* file is as it was, or json.dump broke off and the file is cut short
FailedWrite == {disk_manifest, Malformed}

\* a save_project that clears the flag before it writes
SavedFlagCleared(written) == FALSE

\* the flag after save_project: cleared when save_manifest has returned; its
\* exception leaves save_project, and the slot, before the flag is touched
SavedFlag(written) == IF written THEN FALSE ELSE is_dirty

\* MainWindow.new_project: the chosen directory is empty. The list's filter
\* check box stays as it starts, unchecked: every layer has a row. When the
\* first save_manifest raises, load_project is not reached.
new_project ==
    /\ task = Idle /\ nops < MaxOps
    /\ project_path = NoProject
    /\ disk_manifest = AbsentFile
    /\ project_path' = ProjectDir
    /\ manifest' = EmptyManifest
    /\ IF disk_faulty
       THEN /\ disk_manifest' \in FailedWrite
            /\ last' = [op |-> "new_project", written |-> FALSE]
            /\ UNCHANGED <<is_dirty, widgets>>
       ELSE /\ disk_manifest' = EmptyManifest
            /\ is_dirty' = FALSE
            /\ Repopulate(EmptyManifest, layer_files, metadata_files, FALSE)
            /\ last' = [op |-> "load_project"]
    /\ nops' = nops + 1
    /\ UNCHANGED <<disk_faulty, layer_files, metadata_files, task>>

\* save_project of an open project: save_manifest, then the flag is cleared
SaveProject ==
    /\ IF disk_faulty THEN disk_manifest' \in FailedWrite ELSE save_manifest
    /\ is_dirty' = SavedFlag(~disk_faulty)

\* MainWindow.save_project
save_project ==
    /\ CanRun
    /\ SaveProject
    /\ last' = [op |-> "save_project", was_dirty |-> is_dirty,
                written |-> ~disk_faulty]
    /\ nops' = nops + 1
    /\ UNCHANGED <<project_path, manifest, disk_faulty, layer_files,
                   metadata_files, widgets, task>>

\* the directories the user picks in open_project: the project's own, one
\* whose manifest.json is no JSON, one without manifest.json
BrokenDir == "broken"
BareDir == "bare"
Directories == {ProjectDir, BrokenDir, BareDir}

\* manifest.json of a directory
ManifestIn(dir, own) ==
    CASE dir = ProjectDir -> own
      [] dir = BrokenDir -> Malformed
      [] OTHER -> AbsentFile

\* MainWindow.load_project of a directory whose manifest.json holds on_disk:
\* without the file nothing is changed; with a file json.load cannot parse
\* the path, already assigned, is set to None
load_project(dir, on_disk, dirty, lock) ==
    IF on_disk = AbsentFile
    THEN /\ is_dirty' = dirty
         /\ last' = [op |-> "load_failed", path |-> project_path,
                     manifest |-> manifest, dirty |-> dirty]
         /\ UNCHANGED <<project_path, manifest, widgets>>
    ELSE IF on_disk = Malformed
    THEN /\ project_path' = NoProject
         /\ is_dirty' = dirty
         /\ last' = [op |-> "load_failed", path |-> project_path,
                     manifest |-> manifest, dirty |-> dirty]
         /\ UNCHANGED <<manifest, widgets>>
    ELSE /\ project_path' = dir
         /\ manifest' = on_disk
         /\ is_dirty' = FALSE
         /\ Repopulate(on_disk, layer_files, metadata_files, lock)
         /\ last' = [op |-> "load_project"]

\* MainWindow.open_project of a directory, after prompt_save_if_dirty was
\* answered Save (save) or Discard. A save_project that raises leaves
\* open_project before the directory is asked for.
open_project(dir, save, lock) ==
    /\ task = Idle /\ nops < MaxOps
    /\ IF is_dirty /\ save
       THEN IF project_path = NoProject
            THEN UNCHANGED <<project_path, manifest, is_dirty, disk_manifest,
                             widgets, last>>
            ELSE IF disk_faulty
            THEN /\ disk_manifest' \in FailedWrite
                 /\ last' = [op |-> "save_project", was_dirty |-> is_dirty,
                             written |-> FALSE]
                 /\ UNCHANGED <<project_path, manifest, is_dirty, widgets>>
            ELSE /\ save_manifest
                 /\ load_project(dir, ManifestIn(dir, manifest), FALSE, lock)
       ELSE /\ UNCHANGED disk_manifest
            /\ load_project(dir, ManifestIn(dir, disk_manifest), is_dirty, lock)
    /\ nops' = nops + 1
    /\ UNCHANGED <<disk_faulty, layer_files, metadata_files, task>>

\* auto_save_project with a project open
AutoSave ==
    /\ project_path # NoProject
    /\ IF is_dirty THEN SaveProject ELSE UNCHANGED <<disk_manifest, is_dirty>>
    /\ last' = [op |-> "auto_save_project", was_dirty |-> is_dirty,
                written |-> is_dirty /\ ~disk_faulty]
    /\ UNCHANGED <<project_path, manifest, disk_faulty, layer_files,
                   metadata_files, widgets, task>>

\* MainWindow.auto_save_project, the slot of the 30 s timer. The timer's
\* events are also delivered while a modal dialog waits for its answer.
auto_save_project ==
    /\ nops < MaxOps
    /\ AutoSave
    /\ nops' = nops + 1

\* update_layer_type whose base branch forgets data.pop("metadata", None)
TypedRecordKeepingMetadata(data, checked) ==
    IF checked
    THEN SetDefault(Put(data, "type", BaseType), "offset", <<0, 0>>)
    ELSE Drop(Drop(data, "type"), "offset")

\* update_layer_type whose other branch forgets data.pop("offset", None)
TypedRecordKeepingOffset(data, checked) ==
    IF checked
    THEN Drop(SetDefault(Put(data, "type", BaseType), "offset", <<0, 0>>),
              "metadata")
    ELSE Drop(data, "type")

\* the record update_layer_type leaves for the state of the check box
TypedRecord(data, checked) ==
    IF checked
    THEN Drop(SetDefault(Put(data, "type", BaseType), "offset", <<0, 0>>),
              "metadata")
    ELSE Drop(Drop(data, "type"), "offset")

\* MainWindow.update_layer_type: is_base_checkbox of the current layer
\* changed to `checked`
update_layer_type(checked, lock) ==
    /\ CanRun
    /\ InManifest(manifest, current)
    /\ checked # ui.is_base
    /\ LET m2 == SetLayer(manifest, current,
                          TypedRecord(manifest.layers[current], checked))
       IN  /\ manifest' = m2
           /\ Repopulate(m2, layer_files, metadata_files, lock)
    /\ mark_dirty
    /\ last' = [op |-> "update_layer_type", layer |-> current,
                checked |-> checked,
                had_offset |-> Has(manifest.layers[current], "offset"),
                had_metadata |-> Has(manifest.layers[current], "metadata")]
    /\ nops' = nops + 1
    /\ UNCHANGED <<project_path, files, task>>

OffsetValues == {0, 3}

\* MainWindow.update_base_offset: the offset box of one axis changed to v;
\* the boxes are enabled when update_ui_state found a base layer
update_base_offset(axis, v) ==
    /\ CanRun
    /\ InManifest(manifest, current)
    /\ ui.base_gate
    /\ ui.offset[axis] # v
    /\ LET data == manifest.layers[current]
           offset == IF axis = 1 THEN <<v, ui.offset[2]>> ELSE <<ui.offset[1], v>>
           m2 == SetLayer(manifest, current, Put(data, "offset", offset))
       IN  /\ ui' = [ui EXCEPT !.offset = offset]
           /\ IF IsBase(data)
              THEN /\ manifest' = m2
                   /\ mark_dirty
                   /\ Redraw(m2, layer_files, metadata_files)
              ELSE UNCHANGED <<manifest, is_dirty, current, listed, preview>>
    /\ last' = [op |-> "update_base_offset", layer |-> current]
    /\ nops' = nops + 1
    /\ UNCHANGED <<project_path, files, task>>

Descriptions == {"", "d"}

\* MainWindow.update_layer_description: the line edit's text changed
update_layer_description(text) ==
    /\ CanRun
    /\ InManifest(manifest, current)
    /\ ui.description # text
    /\ manifest' = SetLayer(manifest, current,
                            Put(manifest.layers[current], "description", text))
    /\ ui' = [ui EXCEPT !.description = text]
    /\ mark_dirty
    /\ last' = [op |-> "update_layer_description", layer |-> current]
    /\ nops' = nops + 1
    /\ UNCHANGED <<project_path, files, current, listed, preview, task>>

\* MainWindow.remove_layer of the current layer, the deletion confirmed
remove_layer(lock) ==
    /\ CanRun
    /\ InManifest(manifest, current)
    /\ LET m2 == DelLayer(manifest, current)
           lf2 == Drop(layer_files, current)
       IN  /\ manifest' = m2
           /\ layer_files' = lf2
           /\ Repopulate(m2, lf2, metadata_files, lock)
    /\ mark_dirty
    /\ last' = [op |-> "remove_layer", layer |-> current]
    /\ nops' = nops + 1
    /\ UNCHANGED <<project_path, disk_manifest, disk_faulty, metadata_files, task>>

\* MainWindow.clear_metadata; the Clear button is enabled when
\* update_ui_state found a layer that is not a base layer and has metadata
clear_metadata(lock) ==
    /\ CanRun
    /\ InManifest(manifest, current)
    /\ ~ui.base_gate /\ ui.metadata_gate
    /\ Has(manifest.layers[current], "metadata")
    /\ LET m2 == SetLayer(manifest, current,
                          Drop(manifest.layers[current], "metadata"))
       IN  /\ manifest' = m2
           /\ RepopulateAndSelect(m2, layer_files, metadata_files, lock)
    /\ mark_dirty
    /\ last' = [op |-> "clear_metadata", layer |-> current]
    /\ nops' = nops + 1
    /\ UNCHANGED <<project_path, files, task>>

----------------------------------------------------------------------------
(* Bindings *)

\* a loop that puts the names in front of the list
PrependNew(bindings, layers_to_bind) == layers_to_bind \o bindings

\* for layer in layers_to_bind: if layer not in bindings: bindings.append(layer)
RECURSIVE AppendNew(_, _)
AppendNew(bindings, layers_to_bind) ==
    IF layers_to_bind = <<>> THEN bindings
    ELSE AppendNew(IF Head(layers_to_bind) \in Range(bindings)
                   THEN bindings
                   ELSE Append(bindings, Head(layers_to_bind)),
                   Tail(layers_to_bind))

\* the names BindLayersDialog offers for a source layer
AvailableLayers(m, source_layer_name) ==
    {name \in DOMAIN m.layers :
        /\ name # source_layer_name
        /\ name \notin Range(Get(m.layers[source_layer_name], "bindings", <<>>))}

\* the record bind_layers leaves
BoundRecord(data, layers_to_bind) ==
    Put(data, "bindings", AppendNew(Get(data, "bindings", <<>>), layers_to_bind))

\* MainWindow.bind_layers, the dialog accepted with layers_to_bind selected
bind_layers(layers_to_bind) ==
    /\ CanRun
    /\ InManifest(manifest, current)
    /\ layers_to_bind # <<>>
    /\ Range(layers_to_bind) \subseteq AvailableLayers(manifest, current)
    /\ LET m2 == SetLayer(manifest, current,
                          BoundRecord(manifest.layers[current], layers_to_bind))
       IN  /\ manifest' = m2
           /\ ui' = [ui EXCEPT !.bindings = Range(m2.layers[current]["bindings"])]
           /\ Redraw(m2, layer_files, metadata_files)
    /\ mark_dirty
    /\ last' = [op |-> "bind_layers", layer |-> current,
                bound |-> layers_to_bind,
                before |-> Get(manifest.layers[current], "bindings", <<>>)]
    /\ nops' = nops + 1
    /\ UNCHANGED <<project_path, files, task>>

\* source_layer_data["bindings"].remove(name) for each selected name
RECURSIVE RemoveAll(_, _)
RemoveAll(bindings, selected) ==
    IF bindings = <<>> THEN <<>>
    ELSE IF Head(bindings) \in selected
         THEN RemoveAll(Tail(bindings), selected)
         ELSE <<Head(bindings)>> \o RemoveAll(Tail(bindings), selected)

\* unbind_layers without the deletion of an emptied list
UnboundRecordKeepingEmpty(data, selected) ==
    Put(data, "bindings", RemoveAll(data["bindings"], selected))

\* the record unbind_layers leaves: an emptied list is deleted
UnboundRecord(data, selected) ==
    LET bindings == RemoveAll(data["bindings"], selected)
    IN  IF bindings = <<>> THEN Drop(data, "bindings")
        ELSE Put(data, "bindings", bindings)

\* MainWindow.unbind_layers with `selected` selected in bound_layers_list
unbind_layers(selected, lock) ==
    /\ CanRun
    /\ InManifest(manifest, current)
    /\ selected # {}
    /\ selected \subseteq ui.bindings
    /\ Has(manifest.layers[current], "bindings")
    /\ LET m2 == SetLayer(manifest, current,
                          UnboundRecord(manifest.layers[current], selected))
       IN  /\ manifest' = m2
           /\ Reselect(m2, layer_files, metadata_files, lock)
    /\ mark_dirty
    /\ last' = [op |-> "unbind_layers", layer |-> current,
                bound |-> Range(manifest.layers[current]["bindings"]),
                unbound |-> selected]
    /\ nops' = nops + 1
    /\ UNCHANGED <<project_path, files, task>>

----------------------------------------------------------------------------
(* The manifest cleaner *)

\* cleanup_manifest whose scan forgets the exists() test
MissingLayersUntested(m, lf) == m.keys

\* the names, in the manifest's order, whose file under layers/ is missing
MissingLayers(m, lf) == SelectSeq(m.keys, LAMBDA name : ~LayerExists(lf, name))

\* a loop that also takes the deleted names out of the bindings lists of the
\* records it keeps
DelLayersAndBindings(m, names) ==
    LET kept == DOMAIN m.layers \ Range(names)
    IN  [keys |-> SelectSeq(m.keys, LAMBDA name : name \in kept),
         layers |-> [name \in kept |->
                       IF Has(m.layers[name], "bindings")
                       THEN Put(m.layers[name], "bindings",
                                RemoveAll(m.layers[name]["bindings"],
                                          Range(names)))
                       ELSE m.layers[name]]]

\* for layer_name in missing_layers: del self.manifest["layers"][layer_name]
RECURSIVE DelLayers(_, _)
DelLayers(m, names) ==
    IF names = <<>> THEN m
    ELSE DelLayers(DelLayer(m, Head(names)), Tail(names))

\* MainWindow.cleanup_manifest, the confirmation answered Yes
cleanup_manifest(lock) ==
    /\ CanRun
    /\ LET missing_layers == MissingLayers(manifest, layer_files)
           m2 == DelLayers(manifest, missing_layers)
       IN  /\ manifest' = m2
           /\ IF missing_layers = <<>>
              THEN UNCHANGED <<is_dirty, widgets>>
              ELSE /\ mark_dirty
                   /\ Repopulate(m2, layer_files, metadata_files, lock)
           /\ last' = [op |-> "cleanup_manifest", removed |-> missing_layers,
                       before |-> manifest, on_disk |-> DOMAIN layer_files,
                       files |-> files, path |-> project_path]
    /\ nops' = nops + 1
    /\ UNCHANGED <<project_path, files, task>>

\* a file of layers/ is deleted outside the editor
external_delete_layer_file(name) ==
    /\ CanRun
    /\ LayerExists(layer_files, name)
    /\ layer_files' = Drop(layer_files, name)
    /\ last' = [op |-> "external_delete", layer |-> name]
    /\ nops' = nops + 1
    /\ UNCHANGED <<project_path, manifest, is_dirty, disk_manifest, disk_faulty,
                   metadata_files, widgets, task>>

----------------------------------------------------------------------------
(* Adding layer files *)

\* a file the user picks in a file dialog: its name, what it holds and
\* whether shutil.copy can read it
Src(name, holds, readable) ==
    [name |-> name, holds |-> holds, readable |-> readable]

LayerSources ==
    {Src("a.png", <<4, 2>>, TRUE),
     Src("a.jpg", <<4, 2>>, TRUE), Src("b.png", <<3, 5>>, TRUE),
     Src("b.png", <<3, 5>>, FALSE)}

\* the record _add_layer_files leaves under a name
AddedRecord(m, name, is_base) ==
    IF is_base THEN [type |-> BaseType, offset |-> <<0, 0>>]
    ELSE Get(m.layers, name, EmptyDict)

\* The loop of _add_layer_files from the path at the head of `paths` on, until
\* it ends ("done"), asks whether to overwrite ("prompt") or shutil.copy
\* raises ("raised"). `answered`: the head's overwrite question was answered
\* Yes.
RECURSIVE AddLoop(_, _, _, _, _)
AddLoop(m, lf, paths, is_base, answered) ==
    IF paths = <<>> THEN [m |-> m, lf |-> lf, paths |-> paths, stop |-> "done"]
    ELSE LET src == Head(paths)
         IN  IF LayerExists(lf, src.name) /\ ~answered
             THEN [m |-> m, lf |-> lf, paths |-> paths, stop |-> "prompt"]
             ELSE IF ~src.readable
             THEN [m |-> m, lf |-> lf, paths |-> paths, stop |-> "raised"]
             ELSE AddLoop(SetLayer(m, src.name, AddedRecord(m, src.name, is_base)),
                          Put(lf, src.name, src.holds),
                          Tail(paths), is_base, FALSE)

\* where the loop stopped: at a question the handler waits, at the end it
\* marks the project dirty and repopulates, an exception leaves it at once.
\* `lock` is the lock check box when the handler repopulates; the question's
\* dialog is modal, the box is then as it was before.
AddOutcome(r, is_base, lock) ==
    /\ manifest' = r.m
    /\ layer_files' = r.lf
    /\ CASE r.stop = "prompt" ->
              /\ task' = [op |-> "add_layer_files", paths |-> r.paths,
                          is_base |-> is_base]
              /\ last' = [op |-> "overwrite_question"]
              /\ UNCHANGED <<is_dirty, widgets>>
         [] r.stop = "done" ->
              /\ task' = Idle
              /\ mark_dirty
              /\ Repopulate(r.m, r.lf, metadata_files, lock)
              /\ last' = [op |-> "add_layer_files", completed |-> TRUE,
                          is_base |-> is_base]
         [] r.stop = "raised" ->
              /\ task' = Idle
              /\ last' = [op |-> "add_layer_files", completed |-> FALSE,
                          is_base |-> is_base]
              /\ UNCHANGED <<is_dirty, widgets>>
    /\ UNCHANGED <<project_path, disk_manifest, disk_faulty, metadata_files>>

\* MainWindow.add_layers (is_base false), add_base_layers (is_base true) and
\* _add_layer_files up to its first question
add_layer_files(paths, is_base, lock) ==
    /\ CanRun
    /\ paths # <<>>
    /\ AddOutcome(AddLoop(manifest, layer_files, paths, is_base, FALSE), is_base,
                  lock)
    /\ nops' = nops + 1

\* _add_layer_files from the answer to "File Exists ... Overwrite?" on
answer_overwrite(yes, lock) ==
    /\ task # Idle
    /\ task.op = "add_layer_files"
    /\ AddOutcome(IF yes
                  THEN AddLoop(manifest, layer_files, task.paths,
                               task.is_base, TRUE)
                  ELSE AddLoop(manifest, layer_files, Tail(task.paths),
                               task.is_base, FALSE),
                  task.is_base, lock)
    /\ UNCHANGED nops

----------------------------------------------------------------------------
(* Metadata files *)

\* int(a / b) for a >= 0 and b > 0
Floor(a, b) == a \div b

\* round(original * scale) in the place of int(original * scale)
ScaledIntRounded(original, scale) == Floor(2 * original * scale + ScaleOne, 2 * ScaleOne)

\* int(original * scale), the scale in thousandths
ScaledInt(original, scale) == Floor(original * scale, ScaleOne)

LegacyDoc == [top_layer |-> [x |-> 1, y |-> 2, scale |-> 500]]
LegacyDocNoScale == [top_layer |-> [x |-> 1, y |-> 2]]
OtherDoc == [version |-> 1]

\* the JSON files the user can pick in the metadata file dialogs
MetaSources ==
    {Src("a.json", Json(LegacyDoc), TRUE), Src("a.json", Malformed, TRUE),
     Src("z.json", Json(OtherDoc), TRUE),
     Src("b.json", Json(LegacyDocNoScale), FALSE)}

\* MainWindow.set_metadata_file; the button is enabled when update_ui_state
\* found a layer that is not a base layer. A source shutil.copy cannot read
\* raises before anything is changed.
set_metadata_file(src, lock) ==
    /\ CanRun
    /\ InManifest(manifest, current)
    /\ ~ui.base_gate
    /\ src.readable
    /\ LET mf2 == Put(metadata_files, src.name, src.holds)
           m2 == SetLayer(manifest, current,
                          Put(manifest.layers[current], "metadata", src.name))
       IN  /\ metadata_files' = mf2
           /\ manifest' = m2
           /\ RepopulateAndSelect(m2, layer_files, mf2, lock)
    /\ mark_dirty
    /\ last' = [op |-> "set_metadata_file", layer |-> current]
    /\ nops' = nops + 1
    /\ UNCHANGED <<project_path, disk_manifest, disk_faulty, layer_files, task>>

\* the document _create_and_assign_metadata writes for an image size
DefaultMetadata(size) ==
    [top_layer |->
        [x |-> 0, y |-> 0, scale |-> ScaleOne, opacity |-> OpacityOne,
         original_width |-> size[1], original_height |-> size[2],
         scaled_width |-> size[1], scaled_height |-> size[2]]]

\* MainWindow._create_and_assign_metadata: the metadata files and the manifest
\* it leaves, and the file name
create_and_assign_metadata(m, lf, mf, layer_name) ==
    LET size == IF LayerExists(lf, layer_name) THEN lf[layer_name] ELSE <<0, 0>>
        metadata_filename == JsonName(Stem(layer_name))
    IN  [mf |-> Put(mf, metadata_filename, Json(DefaultMetadata(size))),
         m |-> SetLayer(m, layer_name,
                        Put(m.layers[layer_name], "metadata", metadata_filename)),
         name |-> metadata_filename]

\* MainWindow.create_metadata_file; the button is enabled when
\* update_ui_state found a layer that is not a base layer and has no metadata;
\* the overwrite question, when the file exists, answered Yes
create_metadata_file(lock) ==
    /\ CanRun
    /\ InManifest(manifest, current)
    /\ ~ui.base_gate /\ ~ui.metadata_gate
    /\ LET r == create_and_assign_metadata(manifest, layer_files,
                                           metadata_files, current)
       IN  /\ metadata_files' = r.mf
           /\ manifest' = r.m
           /\ ReselectOnly(r.m, layer_files, r.mf, current, lock)
    /\ mark_dirty
    /\ last' = [op |-> "create_metadata_file", layer |-> current]
    /\ nops' = nops + 1
    /\ UNCHANGED <<project_path, disk_manifest, disk_faulty, layer_files, task>>

\* {Path(name).stem: name for name in self.manifest["layers"]}: the last name
\* of a stem wins
RECURSIVE LayerOfStem(_, _)
LayerOfStem(layer_keys, stem) ==
    IF layer_keys = <<>> THEN ""
    ELSE LET n == layer_keys[Len(layer_keys)]
         IN  IF Stem(n) = stem THEN n
             ELSE LayerOfStem(SubSeq(layer_keys, 1, Len(layer_keys) - 1), stem)

\* The loop of import_metadata over `paths` with the map made of `layer_keys`
\* before the loop: the manifest and files it leaves, the counts, and whether
\* shutil.copy raised
RECURSIVE ImportLoop(_, _, _, _, _, _)
ImportLoop(m, mf, paths, layer_keys, matched_count, unmatched_files) ==
    IF paths = <<>>
    THEN [m |-> m, mf |-> mf, matched_count |-> matched_count,
          unmatched_files |-> unmatched_files, raised |-> FALSE]
    ELSE LET src == Head(paths)
             layer_name == LayerOfStem(layer_keys, Stem(src.name))
         IN  IF layer_name = ""
             THEN ImportLoop(m, mf, Tail(paths), layer_keys, matched_count,
                             Append(unmatched_files, src.name))
             ELSE IF ~src.readable
             THEN [m |-> m, mf |-> mf, matched_count |-> matched_count,
                   unmatched_files |-> unmatched_files, raised |-> TRUE]
             ELSE ImportLoop(
                      SetLayer(m, layer_name,
                               Put(m.layers[layer_name], "metadata", src.name)),
                      Put(mf, src.name, src.holds),
                      Tail(paths), layer_keys, matched_count + 1,
                      unmatched_files)

\* MainWindow.import_metadata with `paths` chosen in the dialog
import_metadata(paths, lock) ==
    /\ CanRun
    /\ paths # <<>>
    /\ LET r == ImportLoop(manifest, metadata_files, paths, manifest.keys,
                           0, <<>>)
       IN  /\ manifest' = r.m
           /\ metadata_files' = r.mf
           /\ IF ~r.raised /\ r.matched_count > 0
              THEN /\ mark_dirty
                   /\ RepopulateAndSelect(r.m, layer_files, r.mf, lock)
              ELSE UNCHANGED <<is_dirty, widgets>>
           /\ last' = [op |-> "import_metadata", completed |-> ~r.raised,
                       matched_count |-> r.matched_count,
                       unmatched_files |-> r.unmatched_files]
    /\ nops' = nops + 1
    /\ UNCHANGED <<project_path, disk_manifest, disk_faulty, layer_files, task>>

\* the values the user sets a metadata spin box to
SpinValues(field) ==
    CASE field = "x" -> {0, 5}
      [] field = "y" -> {0, 5}
      [] field = "scale" -> {250, 1000}
      [] field = "opacity" -> {50, 100}

\* the document update_metadata_from_spinboxes writes for the values `box` of
\* the four spin boxes
SpinboxDocument(metadata_json, box) ==
    LET old == Get(metadata_json, "top_layer", EmptyDict)
        placed == Put(Put(Put(Put(old, "x", box.x), "y", box.y),
                          "scale", box.scale), "opacity", box.opacity)
        top_layer_info ==
            IF Has(old, "original_width") /\ Has(old, "original_height")
            THEN Put(Put(placed, "scaled_width",
                         ScaledInt(old["original_width"], box.scale)),
                     "scaled_height",
                     ScaledInt(old["original_height"], box.scale))
            ELSE placed
    IN  Put(metadata_json, "top_layer", top_layer_info)

\* MainWindow.update_metadata_from_spinboxes: one of the boxes changed to v;
\* the boxes are enabled when update_ui_state found a layer that is not a
\* base layer and has metadata. Without a document to load nothing is written.
update_metadata_from_spinboxes(field, v) ==
    /\ CanRun
    /\ InManifest(manifest, current)
    /\ ~ui.base_gate /\ ui.metadata_gate
    /\ ui.spin[field] # v
    /\ LET box == [ui.spin EXCEPT ![field] = v]
           metadata_json == load_metadata_json_for_layer(
                                project_path, manifest, metadata_files, current)
       IN  /\ ui' = [ui EXCEPT !.spin = box]
           /\ IF Truthy(metadata_json)
              THEN LET mf2 == Put(metadata_files,
                                  manifest.layers[current]["metadata"],
                                  Json(SpinboxDocument(metadata_json.json, box)))
                   IN  /\ metadata_files' = mf2
                       /\ mark_dirty
                       /\ Redraw(manifest, layer_files, mf2)
              ELSE UNCHANGED <<metadata_files, is_dirty, current, listed, preview>>
           /\ last' = [op |-> "update_metadata_from_spinboxes", layer |-> current,
                       written |-> Truthy(metadata_json)]
    /\ nops' = nops + 1
    /\ UNCHANGED <<project_path, manifest, disk_manifest, disk_faulty,
                   layer_files, task>>

\* the documents the user types into the metadata editor
EditorDocs == {LegacyDoc, OtherDoc}

\* MainWindow.save_metadata_from_editor with valid JSON in the editor; the
\* button is enabled when update_ui_state found a layer that has metadata
save_metadata_from_editor(doc, lock) ==
    /\ CanRun
    /\ InManifest(manifest, current)
    /\ ui.metadata_gate
    /\ HasMetadata(manifest.layers[current])
    /\ LET mf2 == Put(metadata_files, manifest.layers[current]["metadata"],
                      Json(doc))
       IN  /\ metadata_files' = mf2
           /\ Reselect(manifest, layer_files, mf2, lock)
    /\ mark_dirty
    /\ last' = [op |-> "save_metadata_from_editor", layer |-> current]
    /\ nops' = nops + 1
    /\ UNCHANGED <<project_path, manifest, disk_manifest, disk_faulty,
                   layer_files, task>>

----------------------------------------------------------------------------
(* Dragging and resizing the top layer in the preview *)

\* the quotient cut to three decimals, not rounded
Round3Truncating(shown_width, original_width) ==
    {(1000 * shown_width) \div original_width}

\* round(shown_width / original_width, 3) in thousandths. A quotient half-way
\* between two thousandths goes to either, as its binary floating-point value
\* lies on either side.
Round3(shown_width, original_width) ==
    LET q == (1000 * shown_width) \div original_width
        r == (1000 * shown_width) % original_width
    IN  IF 2 * r < original_width THEN {q}
        ELSE IF 2 * r > original_width THEN {q + 1}
        ELSE {q, q + 1}

\* a handle_preview_item_change that stores the scene position as it is
TransformDocumentAbsolute(metadata_json, pos, base_offset, original, shown, new_scale) ==
    LET old == Get(metadata_json, "top_layer", EmptyDict)
        placed == Put(Put(Put(old, "x", pos[1]), "y", pos[2]), "scale", new_scale)
        top_layer_info ==
            Put(Put(Put(Put(placed, "original_width", original[1]),
                        "original_height", original[2]),
                    "scaled_width", shown[1]),
                "scaled_height", shown[2])
    IN  Put(metadata_json, "top_layer", top_layer_info)

\* the document handle_preview_item_change writes: the position relative to
\* the base offset, the rounded scale, the sizes of the original and of the
\* shown pixmap
TransformDocument(metadata_json, pos, base_offset, original, shown, new_scale) ==
    LET old == Get(metadata_json, "top_layer", EmptyDict)
        placed == Put(Put(Put(old, "x", pos[1] - base_offset[1]),
                          "y", pos[2] - base_offset[2]),
                      "scale", new_scale)
        top_layer_info ==
            Put(Put(Put(Put(placed, "original_width", original[1]),
                        "original_height", original[2]),
                    "scaled_width", shown[1]),
                "scaled_height", shown[2])
    IN  Put(metadata_json, "top_layer", top_layer_info)

\* round(new_scale, 3): the shown width over the original width, 1.0 for an
\* original without width
NewScales(shown, original) ==
    IF original[1] > 0 THEN Round3(shown[1], original[1]) ELSE {ScaleOne}

\* the scene with its top item at pos
RECURSIVE MoveTop(_, _)
MoveTop(items, pos) ==
    IF items = <<>> THEN <<>>
    ELSE <<IF Head(items).role = "top"
           THEN [Head(items) EXCEPT !.x = pos[1], !.y = pos[2]]
           ELSE Head(items)>> \o MoveTop(Tail(items), pos)

\* the places the user drops the top item at, and the sizes of its pixmap then
DropPoints == {<<0, 0>>, <<5, -1>>}
ShownSizes == {<<4, 2>>, <<2, 1>>}

\* MainWindow.handle_preview_item_change, called by the visible top item when
\* a drag or a resize ends with the item at pos and its pixmap of size shown.
\* New metadata of the current layer runs the selection slot, which finds the
\* layer in the top combo box already; of another layer, update_ui_state.
\* After the write the boxes of the current layer show the new placement.
handle_preview_item_change(pos, shown) ==
    /\ CanRun
    /\ preview_top # NoneText
    /\ InManifest(manifest, preview_top)
    /\ \E i \in DOMAIN scene :
         /\ scene[i].role = "top"
         /\ LET top_name == preview_top
                original == scene[i].size
                create == ~HasMetadata(manifest.layers[top_name])
                r == IF create
                     THEN create_and_assign_metadata(manifest, layer_files,
                                                     metadata_files, top_name)
                     ELSE [mf |-> metadata_files, m |-> manifest,
                           name |-> manifest.layers[top_name]["metadata"]]
                panel == IF ~create THEN ui
                         ELSE IF current = top_name
                         THEN SlotUi(project_path, r.m, r.mf, top_name)
                         ELSE GatedUi(r.m, current)
                metadata_json == load_metadata_json_for_layer(
                                     project_path, r.m, r.mf, top_name)
                base_offset ==
                    IF preview_base # NoneText
                    THEN Get(LayerData(r.m, preview_base), "offset", <<0, 0>>)
                    ELSE <<0, 0>>
            IN  /\ manifest' = r.m
                /\ IF Truthy(metadata_json)
                   THEN /\ \E new_scale \in NewScales(shown, original) :
                             metadata_files' =
                               Put(r.mf, r.name,
                                   Json(TransformDocument(metadata_json.json, pos,
                                            base_offset, original, shown,
                                            new_scale)))
                        /\ mark_dirty
                        /\ IF current = top_name
                           THEN \E box_scale \in NewScales(shown, original) :
                                  ui' = [panel EXCEPT
                                           !.spin.x = pos[1] - base_offset[1],
                                           !.spin.y = pos[2] - base_offset[2],
                                           !.spin.scale = ScaleShown(box_scale)]
                           ELSE ui' = panel
                   ELSE /\ metadata_files' = r.mf
                        /\ IF create THEN mark_dirty ELSE UNCHANGED is_dirty
                        /\ ui' = panel
                /\ last' = [op |-> "handle_preview_item_change",
                            layer |-> top_name, pos |-> pos, shown |-> shown,
                            original |-> original, base_offset |-> base_offset,
                            written |-> Truthy(metadata_json)]
    /\ scene' = MoveTop(scene, pos)
    /\ nops' = nops + 1
    /\ UNCHANGED <<project_path, disk_manifest, disk_faulty, layer_files,
                   current, listed, preview_base, preview_top, task>>

\* MainWindow.on_layer_selection_changed: the user makes another row of the
\* layer list the current one
on_layer_selection_changed(layer_name, lock) ==
    /\ CanRun
    /\ layer_name \in DOMAIN listed
    /\ layer_name # current
    /\ ReselectOnly(manifest, layer_files, metadata_files, layer_name, lock)
    /\ last' = [op |-> "on_layer_selection_changed", layer |-> layer_name]
    /\ nops' = nops + 1
    /\ UNCHANGED <<project_path, manifest, is_dirty, files, task>>

\* an update_preview that calls mark_dirty()
update_preview_marking_dirty(base_name, top_name) ==
    /\ scene' = Compose(project_path, manifest, layer_files, metadata_files,
                        base_name, top_name)
    /\ mark_dirty
    /\ UNCHANGED <<manifest, metadata_files>>

\* MainWindow.update_preview for the two entries: the scene is made again,
\* the project is left alone
update_preview(base_name, top_name) ==
    /\ scene' = Compose(project_path, manifest, layer_files, metadata_files,
                        base_name, top_name)
    /\ UNCHANGED <<manifest, is_dirty, metadata_files>>

\* MainWindow.on_base_preview_changed: another entry of the base combo box
on_base_preview_changed(base_name) ==
    /\ CanRun
    /\ base_name \in BaseItems(listed)
    /\ base_name # preview_base
    /\ preview_base' = base_name
    /\ update_preview(base_name, preview_top)
    /\ last' = [op |-> "update_preview", manifest |-> manifest,
                metadata_files |-> metadata_files, dirty |-> is_dirty]
    /\ nops' = nops + 1
    /\ UNCHANGED <<project_path, disk_manifest, disk_faulty, layer_files,
                   current, listed, ui, preview_top, task>>

\* MainWindow.on_top_preview_changed: another entry of the top combo box
on_top_preview_changed(top_name) ==
    /\ CanRun
    /\ top_name \in TopItems(listed)
    /\ top_name # preview_top
    /\ preview_top' = top_name
    /\ update_preview(preview_base, top_name)
    /\ last' = [op |-> "update_preview", manifest |-> manifest,
                metadata_files |-> metadata_files, dirty |-> is_dirty]
    /\ nops' = nops + 1
    /\ UNCHANGED <<project_path, disk_manifest, disk_faulty, layer_files,
                   current, listed, ui, preview_base, task>>

----------------------------------------------------------------------------
(* The migrator: MainWindow.run_migration_script *)

\* metadata_to_layer_map: for two layers with one metadata file the later wins
RECURSIVE MetadataToLayer(_, _, _)
MetadataToLayer(m, layer_keys, metadata_filename) ==
    IF layer_keys = <<>> THEN ""
    ELSE LET n == layer_keys[Len(layer_keys)]
         IN  IF HasMetadata(m.layers[n]) /\ m.layers[n]["metadata"] = metadata_filename
             THEN n
             ELSE MetadataToLayer(m, SubSeq(layer_keys, 1, Len(layer_keys) - 1),
                                  metadata_filename)

\* a migration that does not look for original_width
IsLegacyUntested(data) == Has(data, "top_layer")

\* a document the migrator does not skip: it has a top_layer section without
\* original_width
IsLegacy(data) ==
    Has(data, "top_layer") /\ ~Has(data["top_layer"], "original_width")

\* one pass of the loop body for the file `name` of content `holds`: what the
\* file holds afterwards and how the file is counted
MigrateFile(m, lf, name, holds) ==
    IF ~holds.ok THEN [holds |-> holds, count |-> "error"]
    ELSE LET data == holds.json
         IN  IF ~IsLegacy(data)
             THEN [holds |-> holds, count |-> "skipped"]
             ELSE LET layer_filename == MetadataToLayer(m, m.keys, name)
                  IN  IF layer_filename = ""
                      THEN [holds |-> holds, count |-> "skipped"]
                      ELSE IF ~LayerExists(lf, layer_filename)
                      THEN [holds |-> holds, count |-> "error"]
                      ELSE LET size == lf[layer_filename]
                               scale == Get(data["top_layer"], "scale", ScaleOne)
                               top == Put(Put(Put(Put(data["top_layer"],
                                         "original_width", size[1]),
                                         "original_height", size[2]),
                                         "scaled_width", ScaledInt(size[1], scale)),
                                         "scaled_height", ScaledInt(size[2], scale))
                           IN  [holds |-> Json(Put(data, "top_layer", top)),
                                count |-> "processed"]

\* the summary run_migration_script shows when its loop is over; `ended_with`
\* is how the last pass counted its file
MigrationReport(t, cancelled, ended_with) ==
    [op |-> "run_migration_script", processed |-> t.processed,
     skipped |-> t.skipped, errors |-> t.errors, cancelled |-> cancelled,
     scanned |-> t.scanned, before |-> t.before, after_run |-> t.after_run,
     after_cancelled |-> t.after_cancelled, ended_with |-> ended_with]

\* on_layer_selection_changed(current_item) after the loop, for the metadata
\* files mf2 the loop leaves
MigrationShown(mf2, lock) ==
    IF current = "" THEN UNCHANGED widgets
    ELSE ReselectOnly(manifest, layer_files, mf2, current, lock)

\* run_migration_script up to the first pass of its loop: the progress dialog
\* is shown for the .json files of metadata/
migrate_start ==
    /\ CanRun
    /\ DOMAIN metadata_files # {}
    /\ task' = [op |-> "run_migration_script", todo |-> DOMAIN metadata_files,
                processed |-> {}, skipped |-> {}, errors |-> {},
                scanned |-> DOMAIN metadata_files, before |-> metadata_files,
                after_run |-> (last.op = "run_migration_script"),
                after_cancelled |-> (last.op = "run_migration_script"
                                     /\ last.cancelled)]
    /\ last' = [op |-> "migration_started"]
    /\ nops' = nops + 1
    /\ UNCHANGED <<project_path, manifest, is_dirty, files, widgets>>

\* a loop whose `continue` for a skipped file forgets skipped_count += 1
CountedUnlessSkipped(counted, name, count, kind) ==
    IF count = kind /\ kind # "skipped" THEN counted \cup {name} ELSE counted

\* processed_count, skipped_count and error_count after the pass for `name`:
\* the files counted as `kind` when the pass counted the file as `count`
Counted(counted, name, count, kind) ==
    IF count = kind THEN counted \cup {name} ELSE counted

\* a loop that an error makes leave the files it has not reached
RemainingAfterBreak(todo, name, count) ==
    IF count = "error" THEN {} ELSE todo \ {name}

\* the files the loop still goes to after the pass for `name`, however the
\* pass counted it: `continue` and both except clauses go to the next file
RemainingFiles(todo, name, count) == todo \ {name}

\* one pass of the loop, not cancelled, for the next file the directory scan
\* gave; after the last file the slot runs with the lock check box as it is
\* and the summary is shown
migrate_step(name, lock) ==
    /\ task # Idle
    /\ task.op = "run_migration_script"
    /\ name \in task.todo
    /\ name \in DOMAIN metadata_files
    /\ LET r == MigrateFile(manifest, layer_files, name, metadata_files[name])
           t == [task EXCEPT
                   !.todo = RemainingFiles(@, name, r.count),
                   !.processed = Counted(@, name, r.count, "processed"),
                   !.skipped = Counted(@, name, r.count, "skipped"),
                   !.errors = Counted(@, name, r.count, "error")]
           mf2 == Put(metadata_files, name, r.holds)
       IN  /\ metadata_files' = mf2
           /\ IF t.todo = {}
              THEN /\ task' = Idle
                   /\ MigrationShown(mf2, lock)
                   /\ last' = MigrationReport(t, FALSE, r.count)
              ELSE /\ task' = t
                   /\ last' = [op |-> "migration_step"]
                   /\ UNCHANGED widgets
    /\ UNCHANGED <<project_path, manifest, is_dirty, disk_manifest, disk_faulty,
                   layer_files, nops>>

\* progress_dialog.wasCanceled() at the head of a pass: the loop is left
migrate_cancel(lock) ==
    /\ task # Idle
    /\ task.op = "run_migration_script"
    /\ task' = Idle
    /\ MigrationShown(metadata_files, lock)
    /\ last' = MigrationReport(task, TRUE, "cancelled")
    /\ UNCHANGED <<project_path, manifest, is_dirty, files, nops>>

----------------------------------------------------------------------------
(* The editor *)

\* a selection of files of one directory as the file dialog returns it: the
\* files have different names and come in the order of the listing
RECURSIVE Listed(_)
Listed(selection) ==
    IF selection = {} THEN <<>>
    ELSE LET first == CHOOSE f \in selection :
                          \A g \in selection : NameRank(f.name) <= NameRank(g.name)
         IN  <<first>> \o Listed(selection \ {first})

Selections(sources) ==
    {Listed(sel) : sel \in
        {c \in SUBSET sources :
            /\ Cardinality(c) <= MaxPaths
            /\ \A f, g \in c : f # g => f.name # g.name}}

\* what the user selects in the dialogs
BindChoices == SeqsNoDup(LayerNames, MaxPaths)
LayerPathChoices == Selections(LayerSources)
MetaPathChoices == Selections(MetaSources)

Next ==
    \/ new_project
    \/ save_project
    \/ \E save \in BOOLEAN, lock \in BOOLEAN :
          open_project(ProjectDir, save, lock)
    \/ auto_save_project
    \/ \E checked \in BOOLEAN, lock \in BOOLEAN : update_layer_type(checked, lock)
    \/ \E axis \in {1, 2}, v \in OffsetValues : update_base_offset(axis, v)
    \/ \E text \in Descriptions : update_layer_description(text)
    \/ \E lock \in BOOLEAN : remove_layer(lock)
    \/ \E lock \in BOOLEAN : clear_metadata(lock)
    \/ \E bs \in BindChoices : bind_layers(bs)
    \/ \E sel \in SUBSET LayerNames, lock \in BOOLEAN : unbind_layers(sel, lock)
    \/ \E lock \in BOOLEAN : cleanup_manifest(lock)
    \/ \E n \in LayerNames : external_delete_layer_file(n)
    \/ \E paths \in LayerPathChoices, is_base \in BOOLEAN, lock \in BOOLEAN :
          add_layer_files(paths, is_base, lock)
    \/ \E yes \in BOOLEAN, lock \in BOOLEAN : answer_overwrite(yes, lock)
    \/ \E src \in MetaSources, lock \in BOOLEAN : set_metadata_file(src, lock)
    \/ \E lock \in BOOLEAN : create_metadata_file(lock)
    \/ \E paths \in MetaPathChoices, lock \in BOOLEAN :
          import_metadata(paths, lock)
    \/ \E field \in {"x", "y", "scale", "opacity"} :
          \E v \in SpinValues(field) : update_metadata_from_spinboxes(field, v)
    \/ \E doc \in EditorDocs, lock \in BOOLEAN :
          save_metadata_from_editor(doc, lock)
    \/ \E pos \in DropPoints, shown \in ShownSizes :
          handle_preview_item_change(pos, shown)
    \/ \E n \in LayerNames, lock \in BOOLEAN :
          on_layer_selection_changed(n, lock)
    \/ \E b \in LayerNames \cup {NoneText} : on_base_preview_changed(b)
    \/ \E t \in LayerNames \cup {NoneText} : on_top_preview_changed(t)
    \/ migrate_start
    \/ \E f \in MetaNames, lock \in BOOLEAN : migrate_step(f, lock)
    \/ \E lock \in BOOLEAN : migrate_cancel(lock)

Spec == Init /\ [][Next]_vars

----------------------------------------------------------------------------
(* The preview of a loaded project: a project with a base layer, four other
   layers and binding lists on the base layer and on one other layer has been
   opened, and the user works with the preview *)

\* names bound in one binding list of the loaded project
MaxBindings == 2

ComposeBase == "a.png"
ComposeTop == "b.png"
ComposeKeys == <<"a.png", "b.png", "c.png", "d.png", "a.jpg">>
ComposeLayers == Range(ComposeKeys)
\* the layers that are bound to the two
ComposeBound == {"c.png", "d.png", "a.jpg"}

\* a record with its binding list; a record never holds an empty list
WithBindings(data, bindings) ==
    IF bindings = <<>> THEN data ELSE Put(data, "bindings", bindings)

\* the offset of the base layer of the loaded project
ComposeOffset == <<3, 1>>

\* the metadata of a layer that is bound: moved, doubled, half transparent
BoundDoc ==
    [top_layer |-> [x |-> 2, y |-> 0, scale |-> 2 * ScaleOne,
                    opacity |-> OpacityOne \div 2]]

\* the manifests of the loaded project
ComposeManifests ==
    {[keys |-> ComposeKeys,
      layers |->
        [name \in ComposeLayers |->
            CASE name = ComposeBase ->
                     WithBindings([type |-> BaseType, offset |-> ComposeOffset],
                                  of_base)
              [] name = ComposeTop ->
                     WithBindings([metadata |-> "b.json"], of_top)
              [] name = "c.png" -> [metadata |-> "a.json"]
              [] OTHER -> EmptyDict]] :
        of_base \in SeqsNoDup(ComposeBound, MaxBindings),
        of_top \in SeqsNoDup(ComposeBound, MaxBindings)}

\* The widgets after load_project in a new window: the first row of the
\* sorted list is current, the slot found the combo boxes empty, and they
\* show "<None>"
Loaded ==
    /\ current = FirstSorted(DOMAIN manifest.layers)
    /\ listed = Listing(manifest)
    /\ ui = SlotUi(project_path, manifest, metadata_files, current)
    /\ preview_base = NoneText
    /\ preview_top = NoneText
    /\ scene = <<>>

\* the images that may be missing when the project is loaded: none, that of
\* a bound layer, that of the base layer, that of the other layer with a list
ComposeMissing == {{}, {"d.png"}, {ComposeBase}, {ComposeTop}}

\* load_project of such a project
InitCompose ==
    /\ project_path = ProjectDir
    /\ manifest \in ComposeManifests
    /\ disk_manifest = manifest
    /\ disk_faulty = FALSE
    /\ is_dirty = FALSE
    /\ layer_files \in {[name \in ComposeLayers \ missing |-> <<4, 2>>] :
                            missing \in ComposeMissing}
    /\ metadata_files = [name \in {"a.json", "b.json"} |->
                            IF name = "b.json" THEN Json(LegacyDoc)
                            ELSE Json(BoundDoc)]
    /\ Loaded
    /\ task = Idle
    /\ last = [op |-> "load_project"]
    /\ nops = 0

NextCompose ==
    \/ \E b \in ComposeLayers \cup {NoneText} : on_base_preview_changed(b)
    \/ \E t \in ComposeLayers \cup {NoneText} : on_top_preview_changed(t)
    \/ \E n \in ComposeLayers, lock \in BOOLEAN :
          on_layer_selection_changed(n, lock)

SpecCompose == InitCompose /\ [][NextCompose]_vars

----------------------------------------------------------------------------
(* The migration of a loaded project: a project whose layers refer to
   metadata files written before the size fields existed has been opened, and
   the user runs the migration, once or several times *)

\* a metadata document without the size fields, with a scale or without
LegacyWith(scale) == [top_layer |-> [x |-> 1, y |-> 2, scale |-> scale]]

\* the scales of the legacy documents: 0.25, 0.5 and 2.0, whose products with
\* a size are exact in binary floating point
LegacyScales == {250, 500, 2000}

\* an optional reference to a metadata file
Referring(metadata_filename) ==
    IF metadata_filename = "" THEN EmptyDict ELSE [metadata |-> metadata_filename]

\* the manifests of the loaded project: a.png and a.jpg may both refer to
\* a.json, in either order of the two
MigrateManifests ==
    {[keys |-> keys,
      layers |-> [name \in LayerNames |->
                    CASE name = "a.png" -> Referring(of_png)
                      [] name = "a.jpg" -> Referring(of_jpg)
                      [] OTHER -> Referring(of_b)]] :
        keys \in {<<"a.png", "a.jpg", "b.png">>, <<"a.jpg", "a.png", "b.png">>},
        of_png \in {"", "a.json"}, of_jpg \in {"", "a.json"},
        of_b \in {"", "b.json"}}

\* the metadata directories of the loaded project
MigrateMetadata ==
    {[name \in {"a.json", "b.json"} \cup other |->
        CASE name = "a.json" -> of_a
          [] name = "b.json" -> of_b
          [] OTHER -> Json(OtherDoc)] :
        of_a \in {Json(LegacyWith(scale)) : scale \in LegacyScales}
                 \cup {Json(LegacyDocNoScale)},
        of_b \in {Json(LegacyDoc), Malformed, Json(DefaultMetadata(<<4, 2>>))},
        other \in {{}, {"z.json"}}}

\* load_project of such a project; the image of b.png may be missing
InitMigrate ==
    /\ project_path = ProjectDir
    /\ manifest \in MigrateManifests
    /\ disk_manifest = manifest
    /\ disk_faulty = FALSE
    /\ is_dirty = FALSE
    /\ layer_files \in
          {[name \in present |-> IF name = "a.png" THEN <<3, 5>> ELSE <<4, 2>>] :
              present \in {LayerNames, LayerNames \ {"b.png"}}}
    /\ metadata_files \in MigrateMetadata
    /\ Loaded
    /\ task = Idle
    /\ last = [op |-> "load_project"]
    /\ nops = 0

NextMigrate ==
    \/ migrate_start
    \/ \E f \in MetaNames, lock \in BOOLEAN : migrate_step(f, lock)
    \/ \E lock \in BOOLEAN : migrate_cancel(lock)

SpecMigrate == InitMigrate /\ [][NextMigrate]_vars

----------------------------------------------------------------------------
(* The resizing of a top layer: a project with one layer that has a metadata
   file has been opened, the layer is shown as the top layer of the preview,
   and the user resizes it with the handles *)

\* the largest of the small widths the user resizes the item to
MaxShown == 64

\* the widths of the layer's image
OriginalWidths == (1 .. 40) \cup {100, 640, 1000, 1999, 2000, 2999, 3000,
                                  3001, 3003, 3032, 4000}

\* the widths the user resizes the item to
ShownWidths == (1 .. MaxShown) \cup {500, 1502, 2999, 3000}

ScaleLayer == "b.png"

\* load_project of such a project and the choice of its layer in the top
\* combo box
InitScale ==
    /\ project_path = ProjectDir
    /\ manifest = [keys |-> <<ScaleLayer>>,
                   layers |-> [name \in {ScaleLayer} |-> [metadata |-> "b.json"]]]
    /\ disk_manifest = manifest
    /\ disk_faulty = FALSE
    /\ is_dirty = FALSE
    /\ \E width \in OriginalWidths :
          /\ layer_files = [name \in {ScaleLayer} |-> <<width, 2>>]
          /\ metadata_files =
                [name \in {"b.json"} |-> Json(DefaultMetadata(<<width, 2>>))]
    /\ current = ScaleLayer
    /\ listed = Listing(manifest)
    /\ ui = SlotUi(project_path, manifest, metadata_files, current)
    /\ preview_base = NoneText
    /\ preview_top = ScaleLayer
    /\ scene = Compose(project_path, manifest, layer_files, metadata_files,
                       preview_base, preview_top)
    /\ task = Idle
    /\ last = [op |-> "update_preview", manifest |-> manifest,
               metadata_files |-> metadata_files, dirty |-> is_dirty]
    /\ nops = 0

NextScale ==
    \E width \in ShownWidths : handle_preview_item_change(<<0, 0>>, <<width, 2>>)

SpecScale == InitScale /\ [][NextScale]_vars

----------------------------------------------------------------------------
(* Saving on a disk that fails: a project with a base layer and another layer
   has been opened; the user edits and saves it while the disk refuses the
   writes of manifest.json for a time, and the timer fires for ever *)

\* the manifest of the loaded project
SessionManifest ==
    [keys |-> <<"a.png", "b.png">>,
     layers |-> [name \in {"a.png", "b.png"} |->
                   IF name = "a.png"
                   THEN [type |-> BaseType, offset |-> <<0, 0>>]
                   ELSE EmptyDict]]

\* load_project of such a project, on a disk that works or does not
InitSession ==
    /\ project_path = ProjectDir
    /\ manifest = SessionManifest
    /\ disk_manifest = manifest
    /\ disk_faulty \in BOOLEAN
    /\ is_dirty = FALSE
    /\ layer_files = [name \in {"a.png", "b.png"} |-> <<4, 2>>]
    /\ metadata_files = EmptyDict
    /\ Loaded
    /\ task = Idle
    /\ last = [op |-> "load_project"]
    /\ nops = 0

\* the disk begins to refuse the writes, and accepts them again
disk_fails ==
    /\ ~disk_faulty
    /\ disk_faulty' = TRUE
    /\ UNCHANGED <<project_path, manifest, is_dirty, disk_manifest, layer_files,
                   metadata_files, widgets, task, last, nops>>

disk_recovers ==
    /\ disk_faulty
    /\ disk_faulty' = FALSE
    /\ UNCHANGED <<project_path, manifest, is_dirty, disk_manifest, layer_files,
                   metadata_files, widgets, task, last, nops>>

\* a tick of the timer; the ticks are not among the handlers MaxOps bounds
auto_save_tick ==
    /\ AutoSave
    /\ UNCHANGED nops

NextSave ==
    \/ \E text \in Descriptions : update_layer_description(text)
    \/ \E axis \in {1, 2}, v \in OffsetValues : update_base_offset(axis, v)
    \/ \E n \in LayerNames, lock \in BOOLEAN :
          on_layer_selection_changed(n, lock)
    \/ save_project
    \/ auto_save_tick
    \/ disk_fails
    \/ disk_recovers

\* the single-shot interval timer is restarted by Qt after every timeout
SpecSave == InitSession /\ [][NextSave]_vars /\ WF_vars(auto_save_tick)

----------------------------------------------------------------------------
(* Opening directories: the same project has been opened; the user edits and
   saves it and then opens its directory again or a directory that holds no
   project *)

NextLoad ==
    \/ \E text \in Descriptions : update_layer_description(text)
    \/ \E n \in LayerNames, lock \in BOOLEAN :
          on_layer_selection_changed(n, lock)
    \/ save_project
    \/ \E dir \in Directories, save \in BOOLEAN, lock \in BOOLEAN :
          open_project(dir, save, lock)

SpecLoad == InitSession /\ [][NextLoad]_vars

----------------------------------------------------------------------------
(* Editing the records of a loaded project: a project whose base layer and
   whose other layers have descriptions, binding lists and a metadata file has
   been opened; the user binds and unbinds layers, adds files under names the
   project has, toggles and removes layers, and cleans the manifest up after
   files were deleted *)

\* the manifest of the loaded project
EditManifest ==
    [keys |-> <<"a.png", "b.png", "a.jpg">>,
     layers |-> [name \in LayerNames |->
                   CASE name = "a.png" ->
                            [type |-> BaseType, offset |-> <<3, 0>>,
                             description |-> "d", bindings |-> <<"b.png">>]
                     [] name = "b.png" ->
                            [metadata |-> "b.json", description |-> "d",
                             bindings |-> <<"a.jpg">>]
                     [] OTHER -> EmptyDict]]

\* the metadata directory of the loaded project: the file b.png refers to
\* is in order, does not parse, or is not there
EditMetadata ==
    {[name \in {"b.json"} |-> Json(LegacyDoc)],
     [name \in {"b.json"} |-> Malformed],
     EmptyDict}

\* load_project of such a project
InitEdit ==
    /\ project_path = ProjectDir
    /\ manifest = EditManifest
    /\ disk_manifest = manifest
    /\ disk_faulty = FALSE
    /\ is_dirty = FALSE
    /\ layer_files = [name \in LayerNames |-> <<4, 2>>]
    /\ metadata_files \in EditMetadata
    /\ Loaded
    /\ task = Idle
    /\ last = [op |-> "load_project"]
    /\ nops = 0

\* the files the user adds, one at a time: new images for two of the layers
EditSources == {Src("a.png", <<3, 5>>, TRUE), Src("b.png", <<3, 5>>, TRUE)}

NextEdit ==
    \/ \E bs \in BindChoices : bind_layers(bs)
    \/ \E sel \in SUBSET LayerNames, lock \in BOOLEAN : unbind_layers(sel, lock)
    \/ \E lock \in BOOLEAN : cleanup_manifest(lock)
    \/ \E n \in LayerNames : external_delete_layer_file(n)
    \/ \E src \in EditSources, is_base \in BOOLEAN, lock \in BOOLEAN :
          add_layer_files(<<src>>, is_base, lock)
    \/ \E yes \in BOOLEAN, lock \in BOOLEAN : answer_overwrite(yes, lock)
    \/ \E checked \in BOOLEAN, lock \in BOOLEAN : update_layer_type(checked, lock)
    \/ \E lock \in BOOLEAN : remove_layer(lock)
    \/ \E n \in LayerNames, lock \in BOOLEAN :
          on_layer_selection_changed(n, lock)

SpecEdit == InitEdit /\ [][NextEdit]_vars

----------------------------------------------------------------------------
(* The replacement of a layer's image: a project with one layer that has a
   metadata file made by the editor has been opened, the layer is shown as
   the top layer of the preview; the user adds an image of the same name and
   of another size, moves and resizes the item and edits the boxes *)

\* the size of the layer's image when its metadata file was made
FirstSize == <<4, 2>>

\* the image the user adds under the name of the layer
ReaddSources == {Src(ScaleLayer, <<3, 5>>, TRUE)}

\* load_project of such a project, the layer picked as the top layer
InitReadd ==
    /\ project_path = ProjectDir
    /\ manifest = [keys |-> <<ScaleLayer>>,
                   layers |-> [name \in {ScaleLayer} |-> [metadata |-> "b.json"]]]
    /\ disk_manifest = manifest
    /\ disk_faulty = FALSE
    /\ is_dirty = FALSE
    /\ layer_files = [name \in {ScaleLayer} |-> FirstSize]
    /\ metadata_files = [name \in {"b.json"} |-> Json(DefaultMetadata(FirstSize))]
    /\ current = ScaleLayer
    /\ listed = Listing(manifest)
    /\ ui = SlotUi(project_path, manifest, metadata_files, current)
    /\ preview_base = NoneText
    /\ preview_top = ScaleLayer
    /\ scene = Compose(project_path, manifest, layer_files, metadata_files,
                       preview_base, preview_top)
    /\ task = Idle
    /\ last = [op |-> "update_preview", manifest |-> manifest,
               metadata_files |-> metadata_files, dirty |-> is_dirty]
    /\ nops = 0

NextReadd ==
    \/ \E src \in ReaddSources, lock \in BOOLEAN :
          add_layer_files(<<src>>, FALSE, lock)
    \/ \E yes \in BOOLEAN, lock \in BOOLEAN : answer_overwrite(yes, lock)
    \/ \E pos \in DropPoints, shown \in ShownSizes :
          handle_preview_item_change(pos, shown)
    \/ \E field \in {"x", "y", "scale", "opacity"} :
          \E v \in SpinValues(field) : update_metadata_from_spinboxes(field, v)

SpecReadd == InitReadd /\ [][NextReadd]_vars

----------------------------------------------------------------------------
(* Two layers of one stem: a project with a.png, which refers to a.json, and
   a.jpg, which has no metadata, has been opened; the user picks layers,
   creates metadata and moves the top item *)

StemLayers == {"a.png", "a.jpg"}

\* the manifest of the loaded project
StemManifest ==
    [keys |-> <<"a.png", "a.jpg">>,
     layers |-> [name \in StemLayers |->
                   IF name = "a.png" THEN [metadata |-> "a.json"]
                   ELSE EmptyDict]]

\* load_project of such a project
InitStem ==
    /\ project_path = ProjectDir
    /\ manifest = StemManifest
    /\ disk_manifest = manifest
    /\ disk_faulty = FALSE
    /\ is_dirty = FALSE
    /\ layer_files = [name \in StemLayers |-> <<4, 2>>]
    /\ metadata_files = [name \in {"a.json"} |-> Json(LegacyDoc)]
    /\ Loaded
    /\ task = Idle
    /\ last = [op |-> "load_project"]
    /\ nops = 0

NextStem ==
    \/ \E lock \in BOOLEAN : create_metadata_file(lock)
    \/ \E pos \in DropPoints, shown \in ShownSizes :
          handle_preview_item_change(pos, shown)
    \/ \E n \in StemLayers, lock \in BOOLEAN : on_layer_selection_changed(n, lock)
    \/ \E t \in StemLayers \cup {NoneText} : on_top_preview_changed(t)
    \/ \E field \in {"x", "y", "scale", "opacity"} :
          \E v \in SpinValues(field) : update_metadata_from_spinboxes(field, v)

SpecStem == InitStem /\ [][NextStem]_vars

----------------------------------------------------------------------------
(* Moving the top layer over a base layer: a project with a base layer that
   has an offset, a layer whose metadata file can or cannot be parsed and a
   layer without metadata has been opened; the user picks the layers of the
   preview, moves the top item and edits the offset *)

DragOffset == <<3, 1>>

\* the manifest of the loaded project
DragManifest ==
    [keys |-> <<"a.png", "b.png", "a.jpg">>,
     layers |-> [name \in LayerNames |->
                   CASE name = "a.png" -> [type |-> BaseType, offset |-> DragOffset]
                     [] name = "b.png" -> [metadata |-> "b.json"]
                     [] OTHER -> EmptyDict]]

\* load_project of such a project
InitDrag ==
    /\ project_path = ProjectDir
    /\ manifest = DragManifest
    /\ disk_manifest = manifest
    /\ disk_faulty = FALSE
    /\ is_dirty = FALSE
    /\ layer_files = [name \in LayerNames |-> <<4, 2>>]
    /\ metadata_files \in {[name \in {"b.json"} |-> holds] :
                              holds \in {Json(LegacyDoc), Malformed}}
    /\ Loaded
    /\ task = Idle
    /\ last = [op |-> "load_project"]
    /\ nops = 0

NextDrag ==
    \/ \E b \in LayerNames \cup {NoneText} : on_base_preview_changed(b)
    \/ \E t \in LayerNames \cup {NoneText} : on_top_preview_changed(t)
    \/ \E n \in LayerNames, lock \in BOOLEAN : on_layer_selection_changed(n, lock)
    \/ \E pos \in DropPoints, shown \in ShownSizes :
          handle_preview_item_change(pos, shown)
    \/ \E axis \in {1, 2}, v \in OffsetValues : update_base_offset(axis, v)

SpecDrag == InitDrag /\ [][NextDrag]_vars

----------------------------------------------------------------------------
(* Properties of the editor *)

\* round(a / b) as the specification writes it: Python's round of the exact
\* quotient, a tie going to the even neighbour
PyRound(a, b) ==
    LET q == a \div b
        r == a % b
    IN  IF 2 * r < b THEN q
        ELSE IF 2 * r > b THEN q + 1
        ELSE IF q % 2 = 0 THEN q ELSE q + 1

\* round(a / b) of a quotient computed in binary floating point: when the
\* exact quotient is a tie, the computed one lies on either side of it
PyRoundFloat(a, b) ==
    IF 2 * (a % b) = b THEN {a \div b, a \div b + 1} ELSE {PyRound(a, b)}

\* C1: with a base layer B and a top layer O selected in the preview and the
\* image of B, of O and of every layer bound to them present, update_preview
\* gives the items z values that are all different and paint them in the
\* order B, O, the layers bound to O in the order of O's list, the layers
\* bound to B in the order of B's list.
C1_DrawOrder ==
    LET of_top == Get(LayerData(manifest, preview_top), "bindings", <<>>)
        of_base == Get(LayerData(manifest, preview_base), "bindings", <<>>)
        images == {preview_base, preview_top} \cup Range(of_top) \cup Range(of_base)
    IN  (/\ preview_base # NoneText
         /\ preview_top # NoneText
         /\ \A name \in images : LayerExists(layer_files, name)) =>
            /\ \A i, j \in DOMAIN scene : i # j => scene[i].z # scene[j].z
            /\ DrawOrder(Range(scene)) =
                   <<preview_base, preview_top>> \o of_top \o of_base

\* C1, its case: B and O are selected, each has two bound layers, six items
\* are painted
C1_Witness ==
    /\ preview_base = ComposeBase /\ preview_top = ComposeTop
    /\ Len(Get(LayerData(manifest, ComposeBase), "bindings", <<>>)) = 2
    /\ Len(Get(LayerData(manifest, ComposeTop), "bindings", <<>>)) = 2
    /\ Len(scene) = 6

\* C2: after update_layer_type has ticked the base check box of a layer, the
\* layer's record has type base_layer, has an offset, which is (0, 0) when the
\* record had none, and has no metadata key.
C2_ToggledToBase ==
    (last.op = "update_layer_type" /\ last.checked) =>
        LET data == manifest.layers[last.layer]
        IN  /\ IsBase(data)
            /\ Has(data, "offset")
            /\ (~last.had_offset => data["offset"] = <<0, 0>>)
            /\ ~Has(data, "metadata")

\* C2, its case: a layer that held metadata and no offset was made a base layer
C2_Witness ==
    /\ last.op = "update_layer_type" /\ last.checked
    /\ last.had_metadata /\ ~last.had_offset

\* C3: after update_layer_type has unticked the base check box of a layer, the
\* layer's record has neither an offset nor a metadata key, whatever the editor
\* did to the record before.
C3_ToggledToOverlay ==
    (last.op = "update_layer_type" /\ ~last.checked) =>
        LET data == manifest.layers[last.layer]
        IN  ~Has(data, "offset") /\ ~Has(data, "metadata")

\* C4: cleanup_manifest deletes exactly the records whose file is missing
\* under layers/: the manifest holds the names it held whose file exists, in
\* their order and each with its record as it was, and the names it reports
\* are the names it deleted.
C4_CleanupExact ==
    last.op = "cleanup_manifest" =>
        LET before == last.before
            kept == {name \in DOMAIN before.layers : name \in last.on_disk}
        IN  /\ DOMAIN manifest.layers = kept
            /\ \A name \in kept : manifest.layers[name] = before.layers[name]
            /\ manifest.keys = SelectSeq(before.keys, LAMBDA name : name \in kept)
            /\ Range(last.removed) = DOMAIN before.layers \ kept
            /\ Len(last.removed) = Cardinality(Range(last.removed))

\* C4, its case: a cleanup that deleted a record and kept another
C4_Witness ==
    /\ last.op = "cleanup_manifest"
    /\ last.removed # <<>>
    /\ manifest.keys # <<>>

\* C5 as the specification states it: a migration run right after a
\* migration run counts no file as processed and leaves every metadata file
\* as it found it.
C5_SecondRunIdle ==
    (last.op = "run_migration_script" /\ last.after_run) =>
        (last.processed = {} /\ metadata_files = last.before)

\* C5, amended: a migration run right after a migration run that was not
\* cancelled counts no file as processed and leaves every metadata file as it
\* found it.
C5_SecondRunIdleAfterFullRun ==
    (/\ last.op = "run_migration_script"
     /\ last.after_run
     /\ ~last.after_cancelled) =>
        (last.processed = {} /\ metadata_files = last.before)

\* C5, its case: the second run went over all files and skipped a.json, which
\* the first run had migrated
C5_Witness ==
    /\ last.op = "run_migration_script"
    /\ last.after_run /\ ~last.after_cancelled /\ ~last.cancelled
    /\ "a.json" \in last.skipped
    /\ Has(metadata_files["a.json"].json["top_layer"], "original_width")

\* C6 as the specification states it: after a migration run, a document that
\* had a top_layer section without original_width and that a layer with an
\* image of size W x H refers to holds original_width W, original_height H,
\* scaled_width round(W * scale) and scaled_height round(H * scale), and its
\* other fields as they were.
C6_MigrationRounds ==
    (last.op = "run_migration_script" /\ ~last.cancelled) =>
        \A name \in DOMAIN manifest.layers :
            LET data == manifest.layers[name]
                f == Get(data, "metadata", "")
            IN  (/\ f \in DOMAIN last.before
                 /\ last.before[f].ok
                 /\ Has(last.before[f].json, "top_layer")
                 /\ ~Has(last.before[f].json["top_layer"], "original_width")
                 /\ LayerExists(layer_files, name)) =>
                    LET old == last.before[f].json["top_layer"]
                        top == metadata_files[f].json["top_layer"]
                        scale == Get(old, "scale", ScaleOne)
                        size == layer_files[name]
                    IN  /\ top["original_width"] = size[1]
                        /\ top["original_height"] = size[2]
                        /\ top["scaled_width"] = PyRound(size[1] * scale, ScaleOne)
                        /\ top["scaled_height"] = PyRound(size[2] * scale, ScaleOne)
                        /\ \A k \in DOMAIN old : top[k] = old[k]

\* C6, amended: after a migration run that was not cancelled, a document that
\* had a top_layer section without original_width holds, for the last layer
\* of the manifest that refers to it, when that layer's image of size W x H
\* exists: original_width W, original_height H, scaled_width int(W * scale)
\* and scaled_height int(H * scale), the products cut to their integer part,
\* and its other fields as they were.
C6_MigrationTruncates ==
    (last.op = "run_migration_script" /\ ~last.cancelled) =>
        \A i \in DOMAIN manifest.keys :
            LET name == manifest.keys[i]
                f == Get(manifest.layers[name], "metadata", "")
            IN  (/\ f \in DOMAIN last.before
                 /\ \A j \in DOMAIN manifest.keys :
                       j > i => Get(manifest.layers[manifest.keys[j]],
                                    "metadata", "") # f
                 /\ last.before[f].ok
                 /\ Has(last.before[f].json, "top_layer")
                 /\ ~Has(last.before[f].json["top_layer"], "original_width")
                 /\ LayerExists(layer_files, name)) =>
                    LET old == last.before[f].json["top_layer"]
                        top == metadata_files[f].json["top_layer"]
                        scale == Get(old, "scale", ScaleOne)
                        size == layer_files[name]
                    IN  /\ top["original_width"] = size[1]
                        /\ top["original_height"] = size[2]
                        /\ top["scaled_width"] = (size[1] * scale) \div ScaleOne
                        /\ top["scaled_height"] = (size[2] * scale) \div ScaleOne
                        /\ \A k \in DOMAIN old : top[k] = old[k]
                        /\ DOMAIN top = DOMAIN old \cup
                               {"original_width", "original_height",
                                "scaled_width", "scaled_height"}
                        /\ \A k \in DOMAIN last.before[f].json \ {"top_layer"} :
                               metadata_files[f].json[k] = last.before[f].json[k]

\* C6, its case: a.json was migrated for an image whose width times the scale
\* is no whole number
C6_Witness ==
    /\ last.op = "run_migration_script" /\ ~last.cancelled
    /\ "a.json" \in last.processed
    /\ LET top == metadata_files["a.json"].json["top_layer"]
       IN  /\ Has(top, "scale")
           /\ (top["original_width"] * top["scale"]) % ScaleOne # 0

\* C7: no record of the manifest holds an empty bindings list, and a record
\* whose bound layers were all unbound has no bindings key.
C7_NoEmptyBindings ==
    /\ \A name \in DOMAIN manifest.layers :
          Has(manifest.layers[name], "bindings") =>
              manifest.layers[name]["bindings"] # <<>>
    /\ (last.op = "unbind_layers" /\ last.bound \subseteq last.unbound) =>
          ~Has(manifest.layers[last.layer], "bindings")

\* C7, its case: the only bound layer of a record has been unbound
C7_Witness ==
    /\ last.op = "unbind_layers"
    /\ last.bound # {} /\ last.bound \subseteq last.unbound

\* C8 as the specification states it: in a document written when a drag or
\* a resize of the top item ends, with an original width W > 0, the stored
\* scaled_width is within 1 of round(W * scale) for the stored scale.
C8_ScaledWidthNearProduct ==
    (/\ last.op = "handle_preview_item_change"
     /\ last.written
     /\ last.original[1] > 0) =>
        LET top == metadata_files[manifest.layers[last.layer]["metadata"]]
                       .json["top_layer"]
        IN  \A rounded \in PyRoundFloat(top["original_width"] * top["scale"],
                                         ScaleOne) :
                /\ top["scaled_width"] - rounded <= 1
                /\ rounded - top["scaled_width"] <= 1

\* C8, amended: the same for an original width W with 0 < W <= 3000; the
\* scale is kept with three decimals, so the product is off the shown width
\* by up to W / 2000.
C8_ScaledWidthNearProductTo3000 ==
    (/\ last.op = "handle_preview_item_change"
     /\ last.written
     /\ last.original[1] > 0
     /\ last.original[1] <= 3000) =>
        LET top == metadata_files[manifest.layers[last.layer]["metadata"]]
                       .json["top_layer"]
        IN  /\ top["original_width"] = last.original[1]
            /\ top["scaled_width"] = last.shown[1]
            /\ top["scale"] \in NewScales(last.shown, last.original)
            /\ \A rounded \in PyRoundFloat(top["original_width"] * top["scale"],
                                             ScaleOne) :
                    /\ top["scaled_width"] - rounded <= 1
                    /\ rounded - top["scaled_width"] <= 1

\* C8, its case: an image 3000 wide was resized and the stored scaled_width
\* is not the rounded product
C8_Witness ==
    /\ last.op = "handle_preview_item_change" /\ last.written
    /\ last.original[1] = 3000
    /\ LET top == metadata_files[manifest.layers[last.layer]["metadata"]]
                      .json["top_layer"]
       IN  top["scaled_width"] #
               PyRound(top["original_width"] * top["scale"], ScaleOne)

\* C9: a load leaves the project not dirty, and a handler that changed the
\* manifest and came to its end (no exception left it) leaves the project
\* dirty; so do an add of layers and an import that matched a layer.
C9_DirtyAfterChange ==
    [][/\ (last'.op = "load_project") => ~is_dirty'
       /\ (/\ manifest' # manifest
           /\ task' = Idle
           /\ last'.op # "load_project"
           /\ Get(last', "completed", TRUE)) => is_dirty'
       /\ (last'.op = "add_layer_files" /\ last'.completed) => is_dirty'
       /\ (/\ last'.op = "import_metadata"
           /\ last'.completed
           /\ last'.matched_count > 0) => is_dirty']_vars

\* C9, its case: the manifest was saved and a handler other than the add of
\* layers then changed it
C9_Witness ==
    /\ is_dirty
    /\ disk_manifest # AbsentFile /\ disk_manifest # EmptyManifest
    /\ disk_manifest # manifest
    /\ last.op \notin {"add_layer_files", "overwrite_question", "load_project"}

\* C10: a tick of the autosave timer on a dirty project writes the manifest
\* and clears the flag, so that manifest.json holds the manifest; a tick on a
\* project that is not dirty writes nothing; save_project writes and clears
\* whatever the flag is.
C10_AutosaveAndSave ==
    [][/\ (last'.op = "auto_save_project" /\ is_dirty) =>
             (disk_manifest' = manifest /\ manifest' = manifest /\ ~is_dirty')
       /\ (last'.op = "auto_save_project" /\ ~is_dirty) =>
             UNCHANGED <<disk_manifest, layer_files, metadata_files, is_dirty>>
       /\ (last'.op = "save_project") =>
             (disk_manifest' = manifest /\ manifest' = manifest /\ ~is_dirty')]_vars

\* C10, its case: a tick has written a manifest with layers
C10_Witness ==
    /\ last.op = "auto_save_project" /\ last.was_dirty
    /\ manifest.keys # <<>>
    /\ disk_manifest = manifest

\* C11: a save or a tick whose write of manifest.json fails leaves the dirty
\* flag set; and when from some time on the disk accepts the writes, every
\* state with the flag set is followed by one where the flag is clear and
\* manifest.json holds the manifest.
C11_SaveRetried ==
    /\ [][(is_dirty /\ last'.op \in {"save_project", "auto_save_project"}
             /\ ~last'.written) => (is_dirty' /\ manifest' = manifest)]_vars
    /\ (<>[](~disk_faulty))
          => (is_dirty ~> (~is_dirty /\ disk_manifest = manifest))

\* C11, its case: a tick found the project dirty, its write broke off and
\* left manifest.json cut short, and the flag is still set
C11_Witness ==
    /\ last.op = "auto_save_project" /\ last.was_dirty /\ ~last.written
    /\ is_dirty
    /\ disk_manifest = Malformed

\* C12: update_preview, run because a combo box of the preview shows another
\* entry, leaves the manifest, the metadata files and the dirty flag as they
\* were, and the items it leaves in the scene are a function of the project
\* directory, the manifest, the files and the two entries alone.
C12_PreviewPure ==
    last.op = "update_preview" =>
        /\ manifest = last.manifest
        /\ metadata_files = last.metadata_files
        /\ is_dirty = last.dirty
        /\ scene = Compose(project_path, manifest, layer_files, metadata_files,
                           preview_base, preview_top)

\* C12, its case: the preview was drawn again for a project with unsaved
\* changes and shows two items
C12_Witness ==
    /\ last.op = "update_preview"
    /\ is_dirty
    /\ Len(scene) >= 2

\* C13: update_preview makes no item for an image that is missing. The bound
\* items of the scene are those of the top entry's list and then those of
\* the base entry's list, each list without the names whose image is missing
\* and otherwise in its order; the list of an entry is drawn also when the
\* entry's own image is missing, and the entry's item is there exactly when
\* its image is.
C13_MissingImagesSkipped ==
    LET Exists(name) == LayerExists(layer_files, name)
        IsBound(item) == item.role = "bound"
        of_top == Get(LayerData(manifest, preview_top), "bindings", <<>>)
        of_base == Get(LayerData(manifest, preview_base), "bindings", <<>>)
        bound == SelectSeq(scene, IsBound)
    IN  /\ \A i \in DOMAIN scene : Exists(scene[i].image)
        /\ [i \in DOMAIN bound |-> bound[i].image] =
               SelectSeq(of_top, Exists) \o SelectSeq(of_base, Exists)
        /\ (\E i \in DOMAIN scene : scene[i].role = "base")
               <=> (preview_base # NoneText /\ Exists(preview_base))
        /\ (\E i \in DOMAIN scene : scene[i].role = "top")
               <=> (preview_top # NoneText /\ Exists(preview_top))

\* C13, its cases: a name in the middle of a list has no image and the names
\* around it are drawn; the base entry has no image and its list is drawn
C13_Witness ==
    \/ /\ preview_base = ComposeBase /\ preview_top = ComposeTop
       /\ ~LayerExists(layer_files, "d.png")
       /\ manifest.layers[ComposeTop].bindings = <<"d.png", "c.png">>
       /\ Len(scene) >= 3
    \/ /\ preview_base = ComposeBase
       /\ ~LayerExists(layer_files, ComposeBase)
       /\ Len(scene) = 2
       /\ \A i \in DOMAIN scene : scene[i].role = "bound"

\* C14: in the scene the item of the base entry is at (0, 0); the item of
\* the top entry and every bound item is at base_offset + (x, y) and has the
\* scale and the opacity of the top_layer section of the layer's own metadata
\* file, where base_offset is the offset of the base entry's record, (0, 0)
\* when the entry is "<None>", and x = y = 0, scale = 1, opacity = 1 stand in
\* for a layer without a metadata file.
C14_Placement ==
    LET base_offset == IF preview_base = NoneText THEN <<0, 0>>
                       ELSE manifest.layers[preview_base].offset
        Own(name) ==
            LET data == manifest.layers[name]
            IN  IF Has(data, "metadata")
                THEN metadata_files[data.metadata].json["top_layer"]
                ELSE EmptyDict
    IN  \A i \in DOMAIN scene :
            LET item == scene[i]
                meta == Own(item.image)
            IN  IF item.role = "base"
                THEN item.x = 0 /\ item.y = 0
                ELSE /\ item.x = base_offset[1] + Get(meta, "x", 0)
                     /\ item.y = base_offset[2] + Get(meta, "y", 0)
                     /\ item.scale = Get(meta, "scale", ScaleOne)
                     /\ item.opacity = Get(meta, "opacity", OpacityOne)

\* C14, its case: a base layer with the offset (3, 1) is drawn at (0, 0), the
\* top layer with x = 1, y = 2 at (4, 3), a bound layer with metadata at
\* (5, 1) with its scale and opacity, and a bound layer without at (3, 1)
C14_Witness ==
    /\ preview_base = ComposeBase /\ preview_top = ComposeTop
    /\ \E i, j, k, l \in DOMAIN scene :
          /\ scene[i].role = "base" /\ scene[i].x = 0 /\ scene[i].y = 0
          /\ scene[j].role = "top" /\ scene[j].x = 4 /\ scene[j].y = 3
          /\ scene[k].image = "c.png" /\ scene[k].x = 5 /\ scene[k].y = 1
          /\ scene[k].scale = 2 * ScaleOne /\ scene[k].opacity = 50
          /\ scene[l].image = "a.jpg" /\ scene[l].x = 3 /\ scene[l].y = 1
          /\ scene[l].scale = ScaleOne /\ scene[l].opacity = OpacityOne

\* C15: cleanup_manifest leaves manifest.json, the images and the metadata
\* files as they were and the project directory open; every record it keeps
\* has the bindings list it had, the names of deleted records included; and
\* the dirty flag is set when a record was deleted, and the manifest is as it
\* was when none was.
C15_CleanupFrame ==
    last.op = "cleanup_manifest" =>
        /\ files = last.files
        /\ project_path = last.path
        /\ \A name \in DOMAIN manifest.layers :
              /\ Has(manifest.layers[name], "bindings")
                    = Has(last.before.layers[name], "bindings")
              /\ Get(manifest.layers[name], "bindings", <<>>)
                    = Get(last.before.layers[name], "bindings", <<>>)
        /\ last.removed # <<>> => is_dirty
        /\ last.removed = <<>> => manifest = last.before

\* C15, its case: a cleanup of a saved project deleted a record whose name
\* stays in the bindings list of a record it kept, with a metadata file in
\* the project
C15_Witness ==
    /\ last.op = "cleanup_manifest"
    /\ disk_manifest = last.before /\ disk_manifest # manifest
    /\ metadata_files # EmptyDict
    /\ \E name \in DOMAIN manifest.layers :
          /\ Has(manifest.layers[name], "bindings")
          /\ Range(manifest.layers[name].bindings) \cap Range(last.removed) # {}

\* C16: no bindings list of the manifest holds a name twice, and the list
\* bind_layers leaves is the list it found followed by the names chosen in
\* the dialog, in the order the dialog gave them.
C16_BindingsOrderedSet ==
    /\ \A name \in DOMAIN manifest.layers :
          LET bindings == Get(manifest.layers[name], "bindings", <<>>)
          IN  \A i, j \in DOMAIN bindings : i # j => bindings[i] # bindings[j]
    /\ last.op = "bind_layers" =>
          manifest.layers[last.layer].bindings = last.before \o last.bound

\* C16, its case: a name was bound to a layer that had a bound layer, and
\* the list holds the two
C16_Witness ==
    /\ last.op = "bind_layers"
    /\ last.before # <<>>
    /\ Len(manifest.layers[last.layer].bindings) = 2

\* C17: every record of the manifest whose type is base_layer has an offset,
\* and every other record has none.
C17_OffsetIffBase ==
    \A name \in DOMAIN manifest.layers :
        IsBase(manifest.layers[name]) <=> Has(manifest.layers[name], "offset")

\* C17, its case: a base layer with an offset has been made an overlay
\* layer, and the manifest holds a base layer besides
C17_Witness ==
    /\ last.op = "update_layer_type" /\ ~last.checked /\ last.had_offset
    /\ \E name \in DOMAIN manifest.layers : IsBase(manifest.layers[name])

\* C18: after a load that failed, because the directory has no manifest.json
\* or no layers/ or because its manifest.json does not parse, the project
\* path, the manifest and the dirty flag are what they were when load_project
\* was called.
C18_FailedLoadKeepsSession ==
    last.op = "load_failed" =>
        /\ project_path = last.path
        /\ manifest = last.manifest
        /\ is_dirty = last.dirty

C20_AddMerges ==
    [][last'.op = "add_layer_files" =>
          /\ \A name \in DOMAIN layer_files' :
                (\/ name \notin DOMAIN layer_files
                 \/ layer_files'[name] # layer_files[name]) =>
                    name \in DOMAIN manifest'.layers
          /\ \A name \in DOMAIN manifest.layers :
                /\ name \in DOMAIN manifest'.layers
                /\ \A field \in {"description", "bindings", "metadata"} :
                      Has(manifest.layers[name], field) =>
                          /\ Has(manifest'.layers[name], field)
                          /\ manifest'.layers[name][field]
                                = manifest.layers[name][field]]_vars

\* C21: import_metadata goes through every file chosen in the dialog, also
\* when the copy of one of them fails, and when it has given a layer a
\* metadata file the project is dirty afterwards.
C21_ImportNeverAborts ==
    last.op = "import_metadata" =>
        /\ last.completed
        /\ last.matched_count > 0 => is_dirty

\* the original_width and original_height a metadata file records, <<>> for
\* a file that records none
OriginalSize(file) ==
    IF file.ok /\ Has(file.json, "top_layer")
       /\ Has(file.json["top_layer"], "original_width")
       /\ Has(file.json["top_layer"], "original_height")
    THEN <<file.json["top_layer"]["original_width"],
           file.json["top_layer"]["original_height"]>>
    ELSE <<>>

\* C22: a metadata file that records original_width and original_height
\* records the same two values after every spin box edit, every move or
\* resize of the item and every added image.
C22_OriginalImmutable ==
    [][\A f \in DOMAIN metadata_files \cap DOMAIN metadata_files' :
          OriginalSize(metadata_files[f]) # <<>> =>
              OriginalSize(metadata_files'[f]) = OriginalSize(metadata_files[f])]_vars

\* C23: the slot of the autosave timer runs only between the handlers, never
\* while one of them waits in the middle of its work.
C23_AutosaveBetweenOperations ==
    last.op = "auto_save_project" => task = Idle

\* a metadata file the migration fails on: it is no JSON, or it is a legacy
\* document of a layer whose image is missing
MigrationFails(m, lf, name, holds) ==
    \/ ~holds.ok
    \/ /\ IsLegacy(holds.json)
       /\ MetadataToLayer(m, m.keys, name) # ""
       /\ ~LayerExists(lf, MetadataToLayer(m, m.keys, name))

\* a metadata file the migration is to rewrite: a legacy document of a layer
\* whose image exists
MigrationEligible(m, lf, name, holds) ==
    /\ holds.ok
    /\ IsLegacy(holds.json)
    /\ MetadataToLayer(m, m.keys, name) # ""
    /\ LayerExists(lf, MetadataToLayer(m, m.keys, name))

\* C24: a file the migration fails on is counted as an error and left as it
\* was, and in a run that was not cancelled the files counted as errors are
\* exactly these, every file of the scan was examined, and every eligible
\* file was migrated whatever failed before it.
C24_FailureIsPerFile ==
    last.op = "run_migration_script" =>
        /\ \A f \in last.errors :
              /\ MigrationFails(manifest, layer_files, f, last.before[f])
              /\ metadata_files[f] = last.before[f]
        /\ ~last.cancelled =>
              /\ last.processed \cup last.skipped \cup last.errors = last.scanned
              /\ \A f \in last.scanned :
                    /\ MigrationFails(manifest, layer_files, f, last.before[f])
                          => f \in last.errors
                    /\ MigrationEligible(manifest, layer_files, f, last.before[f])
                          => /\ f \in last.processed
                             /\ ~IsLegacy(metadata_files[f].json)

\* C24, its case: a run that failed on the malformed b.json and migrated
\* a.json in its last pass, after the failure
C24_Witness ==
    /\ last.op = "run_migration_script" /\ ~last.cancelled
    /\ "b.json" \in last.errors /\ ~last.before["b.json"].ok
    /\ "a.json" \in last.processed
    /\ last.scanned = {"a.json", "b.json"}
    /\ last.ended_with = "processed"

\* C25: after a migration run that migrated a metadata file the project is
\* dirty.
C25_MigrationMarksDirty ==
    (last.op = "run_migration_script" /\ last.processed # {}) => is_dirty

\* C26: with a project open and no handler waiting for an answer, a project
\* that is not dirty has in manifest.json the manifest it has in memory.
C26_CleanMeansSaved ==
    (project_path # NoProject /\ task = Idle /\ ~is_dirty) =>
        disk_manifest = manifest

\* C27: when the Create button or a move of the top item makes the default
\* metadata of a layer that had none, the metadata file of every other layer
\* holds what it held.
C27_CreateKeepsOtherFiles ==
    [][(/\ last'.op \in {"create_metadata_file", "handle_preview_item_change"}
        /\ ~HasMetadata(manifest.layers[last'.layer])) =>
          \A n \in DOMAIN manifest.layers \ {last'.layer} :
              LET f == Get(manifest.layers[n], "metadata", "")
              IN  f \in DOMAIN metadata_files =>
                      /\ f \in DOMAIN metadata_files'
                      /\ metadata_files'[f] = metadata_files[f]]_vars

\* C28: in a migration run that was not cancelled every file of the scan is
\* counted once, as processed, skipped or error; a file that holds something
\* else than before the run is counted as processed; and the manifest in
\* memory is the one that was loaded.
C28_CountedOnce ==
    (last.op = "run_migration_script" /\ ~last.cancelled) =>
        /\ last.processed \cup last.skipped \cup last.errors = last.scanned
        /\ Cardinality(last.processed) + Cardinality(last.skipped)
              + Cardinality(last.errors) = Cardinality(last.scanned)
        /\ last.scanned = DOMAIN last.before
        /\ DOMAIN metadata_files = DOMAIN last.before
        /\ \A f \in DOMAIN metadata_files :
              metadata_files[f] # last.before[f] => f \in last.processed
        /\ manifest = disk_manifest

\* C28, its case: a run over three files that processed one, skipped one and
\* failed on one
C28_Witness ==
    /\ last.op = "run_migration_script" /\ ~last.cancelled
    /\ Cardinality(last.scanned) = 3
    /\ last.processed # {} /\ last.skipped # {} /\ last.errors # {}
    /\ \E f \in last.processed : metadata_files[f] # last.before[f]

\* the offset of the base entry of the preview, (0, 0) for "<None>"
SelectedOffset ==
    IF preview_base = NoneText THEN <<0, 0>>
    ELSE manifest.layers[preview_base]["offset"]

\* the top layer's metadata file holds the position `pos` less the selected
\* offset, and update_preview for the same two entries puts the top item at
\* `pos`
StoredAndRedrawnAt(layer, pos) ==
    LET f == Get(manifest.layers[layer], "metadata", "")
        IsTop(item) == item.role = "top"
        tops == SelectSeq(Compose(project_path, manifest, layer_files,
                                  metadata_files, preview_base, preview_top),
                          IsTop)
    IN  /\ f \in DOMAIN metadata_files
        /\ metadata_files[f].ok
        /\ Has(metadata_files[f].json, "top_layer")
        /\ metadata_files[f].json["top_layer"]["x"] = pos[1] - SelectedOffset[1]
        /\ metadata_files[f].json["top_layer"]["y"] = pos[2] - SelectedOffset[2]
        /\ Len(tops) = 1
        /\ tops[1].image = layer
        /\ tops[1].x = pos[1] /\ tops[1].y = pos[2]

C30_BaseHasNoMetadata ==
    \A name \in DOMAIN manifest.layers :
        IsBase(manifest.layers[name]) => ~Has(manifest.layers[name], "metadata")

====
